---- MODULE Spec2Model ----
(***************************************************************************)
(* A model of the ray tracer's numeric core (vec3.rs, matrix.rs), its      *)
(* intersection engine (intersection.rs), its recursive shading evaluator  *)
(* (world.rs), its shapes (sphere.rs, plane.rs, cube.rs, cylinder.rs,      *)
(* cone.rs), its lighting (material.rs, pattern.rs), its canvas           *)
(* (canvas.rs) and its groups (group.rs, lib.rs).                          *)
(*                                                                         *)
(* f64 values are modelled by exact rationals <<n, d>> with d > 0 in       *)
(* lowest terms; an intersection's t in a list that hit() sorts is an      *)
(* integer-valued f64.  The quotients of the shapes' intersection routines *)
(* also take the values +inf, -inf and NaN of a division by zero.          *)
(* Rounding is outside the model.  A Rust panic is modelled as a result    *)
(* that is not "ok".                                                       *)
(***************************************************************************)
EXTENDS Integers, Sequences, FiniteSets, TLC

VARIABLES
    objects,   \* the shapes of the scene: id -> [material, transform]
    xs,        \* Intersections.0 : the Vec<Intersection>
    hitOut,    \* the last call of Intersections::hit and what it returned
    pre,       \* the last call of Intersection::precompute: n1, n2
    stack,     \* the active World::colour_at calls, outermost first
    ret,       \* a colour being returned to the caller on top of the stack
    last,      \* the colour_at call that returned last, as it ended
    budget,    \* `remaining` of the outermost colour_at call
    shadowOut, \* the last direct call of World::is_shadowed
    tv,        \* the last TypedVec operation: its operands and its result
    mat,       \* a Matrix<f64> under construction
    sets,      \* the calls of Matrix::set made on mat
    inv,       \* the last call of mat.inverse() and what it returned
    trip,      \* the last inverse * (mat * v): v, mat * v and the product
    shape,     \* a shape: its kind and its optional transform
    shapeOut,  \* the last operation on shape: its arguments and its result
    canvas,    \* a Canvas: width, height and pixels
    written,   \* the last call of Canvas::write_pixel and the canvas before it
    emitted,   \* the last pixel formatted by Display: the colour and the text
    saved,     \* the last Canvas::save: the lines of the text it returned
    parent,    \* the parent field of every shape and group
    children   \* the children field of every group

hitVars == <<xs, hitOut, pre>>
worldVars == <<stack, ret, last, budget, shadowOut>>
vecVars == <<tv>>
matVars == <<mat, sets, inv, trip>>
shapeVars == <<shape, shapeOut>>
canvasVars == <<canvas, written, emitted, saved>>
groupVars == <<parent, children>>
vars ==
    <<objects, hitVars, worldVars, vecVars, matVars, shapeVars, canvasVars,
      groupVars>>

----------------------------------------------------------------------------
(* f64 arithmetic, exact.                                                  *)

Abs(x) == IF x < 0 THEN -x ELSE x

RECURSIVE GCD(_, _)
GCD(a, b) == IF b = 0 THEN a ELSE GCD(b, a % b)

Norm(n, d) == LET g == GCD(Abs(n), d) IN <<n \div g, d \div g>>

R(n) == <<n, 1>>
Q(n, d) == Norm(n, d)
RNeg(a) == <<-a[1], a[2]>>
\* over the least common denominator, to keep the intermediate values small
RAdd(a, b) ==
    LET g == GCD(a[2], b[2]) IN
    Norm(a[1] * (b[2] \div g) + b[1] * (a[2] \div g), a[2] * (b[2] \div g))
RSub(a, b) == RAdd(a, RNeg(b))
\* cancelling across before multiplying
RMul(a, b) ==
    LET g == GCD(Abs(a[1]), b[2])
        h == GCD(Abs(b[1]), a[2])
    IN  Norm((a[1] \div g) * (b[1] \div h), (a[2] \div h) * (b[2] \div g))
\* a / b for b # 0
RDiv(a, b) == IF b[1] < 0 THEN Norm(-(a[1] * b[2]), a[2] * (-b[1]))
                          ELSE Norm(a[1] * b[2], a[2] * b[1])
RLt(a, b) == a[1] * b[2] < b[1] * a[2]
RLe(a, b) == a[1] * b[2] <= b[1] * a[2]
RIsZero(a) == a[1] = 0

----------------------------------------------------------------------------
(* vec3.rs : TypedVec.  A result is [ok, v]; ok = FALSE is a panic.        *)

VecTypes == {"Vector", "Point", "Colour"}

TV(x, y, z, w, is) == [x |-> x, y |-> y, z |-> z, w |-> w, is |-> is]
point(x, y, z) == TV(x, y, z, R(1), "Point")
vector(x, y, z) == TV(x, y, z, R(0), "Vector")
colour(r, g, b) == TV(r, g, b, R(0), "Colour")

is_point(v) == v.is = "Point"
is_vector(v) == v.is = "Vector"
is_colour(v) == v.is = "Colour"

Ok(v) == [ok |-> TRUE, v |-> v]
Panic(v) == [ok |-> FALSE, v |-> v]

\* impl Add without its panic: a point plus a point is a point
AddKind_Lenient(a, b) ==
    IF is_point(a) \/ is_point(b) THEN "Point" ELSE "Vector"

\* impl Add for TypedVec
AddKind(a, b) ==
    IF is_point(a) /\ is_point(b) THEN "panic"
    ELSE IF (is_point(a) /\ is_vector(b)) \/ (is_vector(a) /\ is_point(b))
         THEN "Point"
         ELSE "Vector"

VecAdd(a, b) ==
    LET k == AddKind(a, b) IN
    IF k = "panic" THEN Panic(a)
    ELSE Ok(TV(RAdd(a.x, b.x), RAdd(a.y, b.y), RAdd(a.z, b.z),
               IF k = "Point" THEN R(1) ELSE R(0), k))

\* impl Sub for TypedVec
SubKind(a, b) ==
    IF is_point(a) /\ is_vector(b) THEN "Point"
    ELSE IF is_vector(a) /\ is_point(b) THEN "panic"
    ELSE "Vector"

VecSub(a, b) ==
    LET k == SubKind(a, b) IN
    IF k = "panic" THEN Panic(a)
    ELSE Ok(TV(RSub(a.x, b.x), RSub(a.y, b.y), RSub(a.z, b.z),
               IF k = "Point" THEN R(1) ELSE R(0), k))

\* impl Neg with w negated like the coordinates
VecNeg_NegatesW(a) == TV(RNeg(a.x), RNeg(a.y), RNeg(a.z), RNeg(a.w), a.is)

\* impl Neg for TypedVec
VecNeg(a) == TV(RNeg(a.x), RNeg(a.y), RNeg(a.z), a.w, a.is)

\* impl Mul<f64> for TypedVec
VecScale(a, k) == TV(RMul(a.x, k), RMul(a.y, k), RMul(a.z, k), a.w, a.is)

\* impl Div<f64> for TypedVec, for k other than 0
VecDiv(a, k) == TV(RDiv(a.x, k), RDiv(a.y, k), RDiv(a.z, k), a.w, a.is)

----------------------------------------------------------------------------
(* matrix.rs : Matrix<f64>, row-major; rows and columns count from 0.      *)

Mat(rows, cols, data) == [rows |-> rows, cols |-> cols, data |-> data]

MNew(rows, cols) == Mat(rows, cols, [k \in 1..(rows * cols) |-> R(0)])

identity(size) ==
    Mat(size, size,
        [k \in 1..(size * size) |->
            IF (k - 1) \div size = (k - 1) % size THEN R(1) ELSE R(0)])

MGet(m, row, col) == m.data[col + row * m.cols + 1]

\* set(): an out-of-range cell leaves the matrix as it is
MSet(m, row, col, item) ==
    IF col < m.cols /\ row < m.rows
    THEN [m EXCEPT !.data[col + row * m.cols + 1] = item]
    ELSE m

translation(x, y, z) ==
    MSet(MSet(MSet(identity(4), 0, 3, x), 1, 3, y), 2, 3, z)

scaling(x, y, z) ==
    MSet(MSet(MSet(identity(4), 0, 0, x), 1, 1, y), 2, 2, z)

shearing(xy, xz, yx, yz, zx, zy) ==
    LET m0 == MNew(4, 4)
        m1 == MSet(MSet(MSet(m0, 0, 0, R(1)), 0, 1, xy), 0, 2, xz)
        m2 == MSet(MSet(MSet(m1, 1, 0, yx), 1, 1, R(1)), 1, 2, yz)
        m3 == MSet(MSet(MSet(m2, 2, 0, zx), 2, 1, zy), 2, 2, R(1))
    IN  MSet(m3, 3, 3, R(1))

submatrix(m, row, col) ==
    LET all == [k \in 1..(m.rows * m.cols) |-> k]
        keepIx(k) == (k - 1) \div m.cols # row /\ (k - 1) % m.cols # col
        kept == SelectSeq(all, keepIx)
    IN  Mat(m.rows - 1, m.cols - 1, [j \in 1..Len(kept) |-> m.data[kept[j]]])

RECURSIVE determinant(_), minor(_, _, _), cofactor(_, _, _), DetLoop(_, _, _)

\* the 2x2 formula, else the expansion along row 0; get_row(0).unwrap()
\* panics on a matrix without rows
determinant(m) ==
    IF m.rows = 2 /\ m.cols = 2
    THEN Ok(RSub(RMul(m.data[1], m.data[4]), RMul(m.data[2], m.data[3])))
    ELSE IF m.rows = 0 THEN Panic(R(0))
    ELSE DetLoop(m, 0, R(0))

DetLoop(m, i, d) ==
    IF i >= m.cols THEN Ok(d)
    ELSE LET c == cofactor(m, 0, i) IN
         IF ~c.ok THEN c
         ELSE DetLoop(m, i + 1, RAdd(d, RMul(c.v, MGet(m, 0, i))))

minor(m, row, col) == determinant(submatrix(m, row, col))

cofactor(m, row, col) ==
    LET mn == minor(m, row, col) IN
    IF ~mn.ok THEN mn
    ELSE IF (row + col) % 2 = 0 THEN mn ELSE Ok(RNeg(mn.v))

\* invertible(): !determinant().is_zero()
DetIsZero(d) == RIsZero(d)

\* inverse() that stores c / det at (row, col), without the transpose
inverse_NoTranspose(m) ==
    LET det == determinant(m)
        cells == {<<r, c>> : r \in 0..(m.rows - 1), c \in 0..(m.cols - 1)}
    IN  IF ~det.ok THEN [st |-> "panic", m |-> m]
        ELSE IF DetIsZero(det.v) THEN [st |-> "err", m |-> m]
        ELSE IF \E rc \in cells : ~cofactor(m, rc[1], rc[2]).ok
             THEN [st |-> "panic", m |-> m]
             ELSE [st |-> "ok",
                   m |-> Mat(m.rows, m.cols,
                         [k \in 1..(m.rows * m.cols) |->
                            RDiv(cofactor(m, (k - 1) \div m.cols, (k - 1) % m.cols).v,
                                 det.v)])]

\* inverse(): [st, m] with st "ok" (Ok(m)), "err" (the not-invertible error)
\* or "panic"
inverse(m) ==
    LET det == determinant(m)
        cells == {<<r, c>> : r \in 0..(m.rows - 1), c \in 0..(m.cols - 1)}
    IN  IF ~det.ok THEN [st |-> "panic", m |-> m]
        ELSE IF DetIsZero(det.v) THEN [st |-> "err", m |-> m]
        ELSE IF \E rc \in cells : ~cofactor(m, rc[1], rc[2]).ok
             THEN [st |-> "panic", m |-> m]
             ELSE [st |-> "ok",
                   m |-> Mat(m.rows, m.cols,
                         [k \in 1..(m.rows * m.cols) |->
                            RDiv(cofactor(m, (k - 1) % m.cols, (k - 1) \div m.cols).v,
                                 det.v)])]

\* mul_int: the dot product of row `row` with [x, y, z, w]
mul_int(m, vec, row) ==
    LET term(c) == RMul(MGet(m, row, c), vec[c + 1])
    IN  RAdd(RAdd(RAdd(term(0), term(1)), term(2)), term(3))

\* impl Mul<TypedVec> for Matrix: asserts cols == 4, reads rows 0..2,
\* hands on the operand's w and tag
MulVec(m, v) ==
    IF m.cols # 4 \/ m.rows < 3 THEN Panic(v)
    ELSE LET vec == <<v.x, v.y, v.z, v.w>> IN
         Ok(TV(mul_int(m, vec, 0), mul_int(m, vec, 1), mul_int(m, vec, 2),
               v.w, v.is))

----------------------------------------------------------------------------
(* The scene: shapes by identity, each with a material and an optional     *)
(* transform.                                                              *)

ObjIds == {"a", "b", "c"}

None == [some |-> FALSE, m |-> MNew(0, 0)]
Some(m) == [some |-> TRUE, m |-> m]

Material(refractive_index, reflective, transparency) ==
    [refractive_index |-> refractive_index, reflective |-> reflective,
     transparency |-> transparency]

Shape(material, transform) == [material |-> material, transform |-> transform]

\* Sphere::glass(): transparency 1.0, refractive index 1.5, no transform
glass == Shape(Material(Q(3, 2), R(0), R(1)), None)

\* three nested glass spheres, as test_find_nx_at_intersections builds them
SceneNested ==
    [o \in ObjIds |->
        CASE o = "a" -> [glass EXCEPT !.transform = Some(scaling(R(2), R(2), R(2)))]
          [] o = "b" -> [glass EXCEPT !.transform = Some(translation(R(0), R(0), Q(-1, 4))),
                                      !.material.refractive_index = R(2)]
          [] o = "c" -> [glass EXCEPT !.transform = Some(translation(R(0), R(0), Q(1, 4))),
                                      !.material.refractive_index = Q(5, 2)]]

\* two glass spheres built alike (Sphere::glass() twice) and a denser one
SceneTwins ==
    [o \in ObjIds |->
        CASE o = "a" -> glass
          [] o = "b" -> glass
          [] o = "c" -> [glass EXCEPT !.material.refractive_index = R(2)]]

Scenes == {SceneNested, SceneTwins}

\* impl PartialEq for dyn Hittable: equal material and equal transform
ObjEq(a, b) ==
    objects[a].material = objects[b].material
    /\ objects[a].transform = objects[b].transform

----------------------------------------------------------------------------
(* intersection.rs : Intersection, Intersections.                          *)

MaxLen == 3
TValues == {-1, 0, 1, 2}

Intersection(t, obj) == [t |-> t, obj |-> obj]

\* #[derive(PartialEq)] on Intersection: t and obj compared with ==
IxEq(i, j) == i.t = j.t /\ ObjEq(i.obj, j.obj)

NoHit == [some |-> FALSE, v |-> Intersection(0, "a")]
SomeHit(i) == [some |-> TRUE, v |-> i]

\* Vec::sort_by with partial_cmp on t: a stable sort
RECURSIVE InsertSorted(_, _)
InsertSorted(e, s) ==
    IF s = <<>> THEN <<e>>
    ELSE IF e.t < Head(s).t THEN <<e>> \o s
    ELSE <<Head(s)>> \o InsertSorted(e, Tail(s))

\* a sort by t that is not stable: entries of equal t end up reversed
RECURSIVE SortByT_TiesReversed(_)
SortByT_TiesReversed(s) ==
    IF s = <<>> THEN s
    ELSE InsertSorted(s[1], SortByT_TiesReversed(Tail(s)))

RECURSIVE SortByT(_)
SortByT(s) ==
    IF s = <<>> THEN s
    ELSE InsertSorted(s[Len(s)], SortByT(SubSeq(s, 1, Len(s) - 1)))

IsPositive(i) == i.t > 0
IsNonNegative(i) == i.t >= 0

\* filter(|x| x.t > 0).take(1).next() on the sorted vector
FirstPositive(sorted) ==
    LET f == SelectSeq(sorted, IsPositive) IN
    IF f = <<>> THEN NoHit ELSE SomeHit(f[1])

\* hit() without its sort
Hit_Unsorted(s) == FirstPositive(s)

\* hit() with the filter t >= 0
Hit_NonNegative(s) ==
    LET f == SelectSeq(SortByT(s), IsNonNegative) IN
    IF f = <<>> THEN NoHit ELSE SomeHit(f[1])

\* Intersections::hit on the vector s
Hit(s) == FirstPositive(SortByT(s))

\* containers.contains(&obj), containers.retain(|&x| x != obj)
Contains(containers, obj) == \E k \in 1..Len(containers) : ObjEq(containers[k], obj)

Retain(containers, obj) ==
    LET keep(x) == ~ObjEq(x, obj) IN SelectSeq(containers, keep)

\* containers.last().unwrap().material().refractive_index, 1.0 when empty
LastIndex(containers) ==
    IF containers = <<>> THEN R(1)
    ELSE objects[containers[Len(containers)]].material.refractive_index

Toggle(containers, obj) ==
    IF Contains(containers, obj) THEN Retain(containers, obj)
    ELSE Append(containers, obj)

\* the loop of precompute over xs from position i: n1 and n2 start at 0 and
\* are set at the first entry equal to self, where the loop breaks
RECURSIVE PreWalk(_, _, _, _)
PreWalk(self, list, i, containers) ==
    IF i > Len(list) THEN [n1 |-> R(0), n2 |-> R(0), containers |-> containers]
    ELSE IF IxEq(self, list[i])
         THEN [n1 |-> LastIndex(containers),
               n2 |-> LastIndex(Toggle(containers, list[i].obj)),
               containers |-> Toggle(containers, list[i].obj)]
         ELSE PreWalk(self, list, i + 1, Toggle(containers, list[i].obj))

PrecomputeN(self, list) == PreWalk(self, list, 1, <<>>)

----------------------------------------------------------------------------
(* world.rs : World.  A colour is one channel, a rational: the three       *)
(* channels are computed alike.                                            *)

BLACK == R(0)

\* sqrt of a rational that is a square
RECURSIVE SqrtSearch(_, _, _)
SqrtSearch(n, lo, hi) ==
    IF lo >= hi THEN lo
    ELSE LET mid == (lo + hi + 1) \div 2 IN
         IF mid * mid <= n THEN SqrtSearch(n, mid, hi)
                           ELSE SqrtSearch(n, lo, mid - 1)

\* the largest k with k * k <= n
ISqrt(n) == SqrtSearch(n, 0, IF n < 46340 THEN n ELSE 46340)
RSqrt(a) == <<ISqrt(a[1]), ISqrt(a[2])>>

RPow5(a) == RMul(a, RMul(RMul(a, a), RMul(a, a)))

\* PreComp::schlick, on comps = [obj, n1, n2, cos] with cos = eyev . normalv
SchlickR0(n1, n2, cos) ==
    LET q == RDiv(RSub(n1, n2), RAdd(n1, n2))
        r0 == RMul(q, q)
    IN  RAdd(r0, RMul(RSub(R(1), r0), RPow5(RSub(R(1), cos))))

Sin2T(n1, n2, cos) ==
    LET n == RDiv(n1, n2) IN RMul(RMul(n, n), RSub(R(1), RMul(cos, cos)))

schlick(comps) ==
    IF RLt(comps.n2, comps.n1)
    THEN LET sin2_t == Sin2T(comps.n1, comps.n2, comps.cos) IN
         IF RLt(R(1), sin2_t) THEN R(1)
         ELSE SchlickR0(comps.n1, comps.n2, RSqrt(RSub(R(1), sin2_t)))
    ELSE SchlickR0(comps.n1, comps.n2, comps.cos)

\* World::intersect: every object's intersections, sorted by t
WorldIntersect(raw) == SortByT(raw)

\* World::is_shadowed, given what the ray toward the light intersects and
\* the distance to the light
IsShadowed_AnyHit(raw, distance) ==
    Hit(WorldIntersect(raw)).some

IsShadowed(raw, distance) ==
    LET h == Hit(WorldIntersect(raw)) IN h.some /\ h.v.t < distance

\* Material::lighting without its early return in shadow
Lighting_IgnoresShadow(ambient, diffuse, specular, in_shadow) ==
    RAdd(RAdd(ambient, diffuse), specular)

\* Material::lighting as shade_hit uses it: the ambient term alone in
\* shadow, else ambient + diffuse + specular
Lighting(ambient, diffuse, specular, in_shadow) ==
    IF in_shadow THEN ambient ELSE RAdd(RAdd(ambient, diffuse), specular)

\* reflected_colour: remaining < 1 || reflective == 0 returns BLACK
ReflectedSkipped_BudgetOnly(remaining, m) == remaining < 1

ReflectedSkipped(remaining, m) == remaining < 1 \/ m.reflective = R(0)

\* refracted_colour: remaining < 1 || transparency == 0 returns BLACK
RefractedSkipped(remaining, m) == remaining < 1 \/ m.transparency = R(0)

\* refracted_colour without its test of sin2_t
TotalInternal_Never(comps) == FALSE

\* refracted_colour: sin2_t > 1 returns BLACK
TotalInternal(comps) == RLt(R(1), Sin2T(comps.n1, comps.n2, comps.cos))

\* the budget handed to the secondary colour_at call
ChildRemaining_Same(remaining) == remaining

ChildRemaining(remaining) == remaining - 1

\* the last expression of shade_hit
ShadeCombine_Sum(surface, reflected, refracted, m, comps) ==
    RAdd(RAdd(surface, reflected), refracted)

ShadeCombine(surface, reflected, refracted, m, comps) ==
    IF RLt(R(0), m.reflective) /\ RLt(R(0), m.transparency)
    THEN LET r == schlick(comps) IN
         RAdd(RAdd(surface, RMul(reflected, r)),
              RMul(refracted, RSub(R(1), r)))
    ELSE RAdd(RAdd(surface, reflected), refracted)

MaxRemaining == 2

\* a colour_at activation
NewFrame(remaining) ==
    [remaining |-> remaining, pc |-> "entry", hit |-> FALSE,
     comps |-> [obj |-> "a", n1 |-> R(0), n2 |-> R(0), cos |-> R(0)],
     shadowed |-> FALSE, shadowRay |-> <<>>, distance |-> 0,
     surface |-> BLACK, reflected |-> BLACK, refracted |-> BLACK,
     reflCasts |-> 0, refrCasts |-> 0, result |-> BLACK]

MaterialOf(f) == objects[f.comps.obj].material

\* What a colour_at activation does next: "call" (it suspends in a secondary
\* colour_at call) or "return" (it ends with f.result).
Finish(f) ==
    [kind |-> "return",
     frame |-> [f EXCEPT !.pc = "done",
                         !.result = ShadeCombine(f.surface, f.reflected, f.refracted,
                                                 MaterialOf(f), f.comps)]]

\* refracted_colour and the rest of shade_hit
AfterReflected(f) ==
    IF RefractedSkipped(f.remaining, MaterialOf(f)) \/ TotalInternal(f.comps)
    THEN Finish([f EXCEPT !.refracted = BLACK])
    ELSE [kind |-> "call",
          frame |-> [f EXCEPT !.pc = "in_refracted", !.refrCasts = @ + 1]]

\* reflected_colour and the rest of shade_hit
AfterSurface(f) ==
    IF ReflectedSkipped(f.remaining, MaterialOf(f))
    THEN AfterReflected([f EXCEPT !.reflected = BLACK])
    ELSE [kind |-> "call",
          frame |-> [f EXCEPT !.pc = "in_reflected", !.reflCasts = @ + 1]]

\* colour_at up to its first secondary call: intersect, hit, precompute,
\* then shade_hit's is_shadowed and lighting
Enter(f, ray) ==
    LET list == WorldIntersect(ray.list)
        h == Hit(list)
    IN  IF ~h.some
        THEN [kind |-> "return", frame |-> [f EXCEPT !.pc = "done", !.result = BLACK]]
        ELSE LET n == PrecomputeN(h.v, list)
                 shadowed == IsShadowed(ray.shadow, ray.distance)
             IN  AfterSurface(
                   [f EXCEPT !.hit = TRUE,
                             !.comps = [obj |-> h.v.obj, n1 |-> n.n1, n2 |-> n.n2,
                                        cos |-> ray.cos],
                             !.shadowed = shadowed,
                             !.shadowRay = ray.shadow,
                             !.distance = ray.distance,
                             !.surface = Lighting(ray.ambient, ray.diffuse,
                                                  ray.specular, shadowed)])

\* colour_at after a secondary call returned colour c
Resume(f, c) ==
    IF f.pc = "in_reflected"
    THEN AfterReflected([f EXCEPT !.reflected = RMul(c, MaterialOf(f).reflective)])
    ELSE Finish([f EXCEPT !.refracted = RMul(c, MaterialOf(f).transparency)])

----------------------------------------------------------------------------
(* The scenes and rays the shading evaluator is run on.                    *)

\* a mirror, a surface that both reflects and transmits, a matte surface
SceneMirror ==
    [o \in ObjIds |->
        CASE o = "a" -> Shape(Material(R(1), R(1), R(0)), None)
          [] o = "b" -> Shape(Material(Q(3, 2), Q(1, 2), Q(1, 2)),
                              Some(translation(R(0), R(-1), R(0))))
          [] o = "c" -> Shape(Material(R(1), R(0), R(0)),
                              Some(scaling(Q(1, 2), Q(1, 2), Q(1, 2))))]

\* two facing mirrors (test_mutually_reflective) and a glass sphere
SceneFacing ==
    [o \in ObjIds |->
        CASE o = "a" -> Shape(Material(R(1), R(1), R(0)),
                              Some(translation(R(0), R(-1), R(0))))
          [] o = "b" -> Shape(Material(R(1), R(1), R(0)),
                              Some(translation(R(0), R(1), R(0))))
          [] o = "c" -> glass]

WorldScenes == {SceneMirror, SceneFacing}

\* What a ray meets: the intersections World::intersect collects for it (in
\* object order, before the sort), cos = eyev . normalv at the hit, and for
\* the shadow test at the hit what the ray toward the light meets and how
\* far the light is.
Ray(list, cos, shadow, distance) ==
    [list |-> list, cos |-> cos, shadow |-> shadow, distance |-> distance,
     ambient |-> Q(1, 10), diffuse |-> Q(1, 2), specular |-> Q(1, 5)]

Rays ==
    { Ray(<<>>, R(1), <<>>, 3),
      Ray(<<Intersection(2, "b"), Intersection(1, "a")>>, R(1),
          <<Intersection(4, "c")>>, 3),
      Ray(<<Intersection(1, "b"), Intersection(2, "b")>>, R(1),
          <<Intersection(1, "c"), Intersection(2, "c")>>, 3),
      Ray(<<Intersection(-1, "b"), Intersection(1, "b")>>, R(0),
          <<Intersection(-2, "a")>>, 3),
      Ray(<<Intersection(0, "c"), Intersection(2, "c")>>, R(1),
          <<Intersection(3, "a")>>, 3),
      Ray(<<Intersection(-1, "c"), Intersection(1, "c")>>, R(0), <<>>, 3) }

ShadowT == {-1, 0, 1, 2}
Distances == {1, 2}

----------------------------------------------------------------------------
(* f64 values that a division can produce: a finite value, an infinity or  *)
(* NaN.  x / 0 is +inf, -inf or NaN by the sign of x (the zero is +0.0).   *)

EPSILON == Q(1, 10000)

Fin(r) == [k |-> "fin", r |-> r]
PInf == [k |-> "inf", r |-> R(0)]
NInf == [k |-> "ninf", r |-> R(0)]
NaN == [k |-> "nan", r |-> R(0)]

IsNaN(x) == x.k = "nan"
IsFinite(x) == x.k = "fin"

FDiv(a, b) ==
    IF ~RIsZero(b) THEN Fin(RDiv(a, b))
    ELSE IF RLt(R(0), a) THEN PInf
    ELSE IF RLt(a, R(0)) THEN NInf
    ELSE NaN

\* x < y on f64: false when either side is NaN
FLt(x, y) ==
    /\ ~IsNaN(x) /\ ~IsNaN(y)
    /\ \/ x.k = "ninf" /\ y.k # "ninf"
       \/ x.k = "fin" /\ y.k = "inf"
       \/ x.k = "fin" /\ y.k = "fin" /\ RLt(x.r, y.r)

FGt(x, y) == FLt(y, x)

\* ZeroIsh::zeroish
zeroish(a) == RLe(<<Abs(a[1]), a[2]>>, EPSILON)

RAbs(a) == <<Abs(a[1]), a[2]>>
RSq(a) == RMul(a, a)

IsSquareNat(n) == ISqrt(n) * ISqrt(n) = n
RIsSquare(a) == a[1] >= 0 /\ IsSquareNat(a[1]) /\ IsSquareNat(a[2])

\* the result of an operation: st is "ok", "err" (an Err(..) returned) or
\* "panic"; "inexact" marks a square root that is not a rational
Res(st, v) == [st |-> st, v |-> v]

----------------------------------------------------------------------------
(* matrix.rs, vec3.rs, ray.rs : what the shapes use.                       *)

\* Matrix::transpose, of a square matrix
transpose(m) ==
    Mat(m.rows, m.cols,
        [k \in 1..(m.rows * m.cols) |->
            MGet(m, (k - 1) % m.rows, (k - 1) \div m.rows)])

\* TypedVec::dot_product, of two vectors
dot_product(a, b) ==
    RAdd(RAdd(RMul(a.x, b.x), RMul(a.y, b.y)), RMul(a.z, b.z))

\* TypedVec::magnitude squared
MagnitudeSq(v) == RAdd(RAdd(RSq(v.x), RSq(v.y)), RSq(v.z))

\* TypedVec::normalize, of a vector whose magnitude is a nonzero rational
normalize(v) ==
    LET mag == RSqrt(MagnitudeSq(v)) IN
    TV(RDiv(v.x, mag), RDiv(v.y, mag), RDiv(v.z, mag), v.w, v.is)

CanNormalize(v) == RIsSquare(MagnitudeSq(v)) /\ ~RIsZero(MagnitudeSq(v))

Ray3(origin, direction) == [origin |-> origin, direction |-> direction]

\* Ray::transform
RayTransform(ray, m) ==
    Ray3(MulVec(m, ray.origin).v, MulVec(m, ray.direction).v)

\* Ray::position
position(ray, t) == VecAdd(ray.origin, VecScale(ray.direction, t)).v

----------------------------------------------------------------------------
(* sphere.rs, plane.rs, cube.rs, cylinder.rs, cone.rs.  A shape is         *)
(* [kind, transform, minimum, maximum, closed]; the last three are read by *)
(* Cylinder and Cone only, and are -INFINITY, INFINITY and false in their  *)
(* Default.  An intersection list is the sequence of its t values: every   *)
(* entry refers to the shape itself.                                       *)

Kinds == {"Sphere", "Plane", "Cube", "Cylinder", "Cone"}
Shape3(kind, transform) ==
    [kind |-> kind, transform |-> transform, minimum |-> NInf, maximum |-> PInf,
     closed |-> FALSE]

\* Cylinder { minimum, maximum, closed, ..Default::default() }, and Cone
Truncated(kind, minimum, maximum, closed) ==
    [Shape3(kind, None) EXCEPT !.minimum = Fin(minimum), !.maximum = Fin(maximum),
                               !.closed = closed]

\* the two roots with the larger one pushed first
Roots_LargerFirst(a, b, disc) ==
    LET s == RSqrt(disc)
        twoa == RMul(R(2), a)
    IN  <<FDiv(RAdd(RNeg(b), s), twoa), FDiv(RSub(RNeg(b), s), twoa)>>

\* the two roots (-b -/+ sqrt(disc)) / (2a), in the order the code pushes them
Roots(a, b, disc) ==
    LET s == RSqrt(disc)
        twoa == RMul(R(2), a)
    IN  <<FDiv(RSub(RNeg(b), s), twoa), FDiv(RAdd(RNeg(b), s), twoa)>>

\* `let (t0, t1) = if t0 > t1 { (t1, t0) } else { (t0, t1) }`
Ordered(ts) == IF FGt(ts[1], ts[2]) THEN <<ts[2], ts[1]>> ELSE ts

\* Sphere::intersect on the ray already in object space
SphereLocal(ray) ==
    LET sphere_to_ray == VecSub(ray.origin, point(R(0), R(0), R(0))).v
        a == dot_product(ray.direction, ray.direction)
        b == RMul(R(2), dot_product(ray.direction, sphere_to_ray))
        c == RSub(dot_product(sphere_to_ray, sphere_to_ray), R(1))
        d == RSub(RSq(b), RMul(R(4), RMul(a, c)))
    IN  IF RLt(d, R(0)) THEN Res("ok", <<>>)
        ELSE IF ~RIsSquare(d) THEN Res("inexact", <<>>)
        ELSE Res("ok", Roots(a, b, d))

\* Sphere::intersect: transform.inverse().unwrap()
SphereIntersect(transform, ray) ==
    IF ~transform.some THEN SphereLocal(ray)
    ELSE LET t == inverse(transform.m) IN
         IF t.st # "ok" THEN Res("panic", <<>>)
         ELSE SphereLocal(RayTransform(ray, t.m))

\* Plane::local_intersect with t = origin.y / direction.y
PlaneLocal_Unsigned(ray) ==
    Res("ok", <<FDiv(ray.origin.y, ray.direction.y)>>)

\* Plane::local_intersect on the ray already in object space
PlaneLocal(ray) ==
    Res("ok", <<FDiv(RNeg(ray.origin.y), ray.direction.y)>>)

\* Plane::local_intersect: the test of direction.y comes before the
\* transform of the ray
PlaneIntersect(transform, ray) ==
    IF RLt(RAbs(ray.direction.y), EPSILON) THEN Res("ok", <<>>)
    ELSE IF ~transform.some THEN PlaneLocal(ray)
    ELSE LET t == inverse(transform.m) IN
         IF t.st # "ok" THEN Res("panic", <<>>)
         ELSE PlaneLocal(RayTransform(ray, t.m))

\* Cube::check_axis
check_axis(origin, direction) ==
    LET tmin == FDiv(RSub(R(-1), origin), direction)
        tmax == FDiv(RSub(R(1), origin), direction)
    IN  IF FGt(tmin, tmax) THEN <<tmax, tmin>> ELSE <<tmin, tmax>>

\* iter().max_by(|x, y| x.partial_cmp(y).unwrap()): a NaN makes
\* partial_cmp None, and the unwrap panics
MaxBy(s) ==
    IF \E k \in 1..Len(s) : IsNaN(s[k]) THEN Res("panic", NaN)
    ELSE Res("ok", CHOOSE x \in {s[k] : k \in 1..Len(s)} :
                       \A k \in 1..Len(s) : ~FLt(x, s[k]))

MinBy(s) ==
    IF \E k \in 1..Len(s) : IsNaN(s[k]) THEN Res("panic", NaN)
    ELSE Res("ok", CHOOSE x \in {s[k] : k \in 1..Len(s)} :
                       \A k \in 1..Len(s) : ~FLt(s[k], x))

\* Cube::local_intersect
CubeLocal(ray) ==
    LET x == check_axis(ray.origin.x, ray.direction.x)
        y == check_axis(ray.origin.y, ray.direction.y)
        z == check_axis(ray.origin.z, ray.direction.z)
        tmin == MaxBy(<<x[1], y[1], z[1]>>)
        tmax == MinBy(<<x[2], y[2], z[2]>>)
    IN  IF tmin.st # "ok" \/ tmax.st # "ok" THEN Res("panic", <<>>)
        ELSE IF FGt(tmin.v, tmax.v) THEN Res("ok", <<>>)
        ELSE Res("ok", <<tmin.v, tmax.v>>)

\* Capped::check_caps: Cylinder's `<= 1.0` and Cone's `<= y.abs()`
check_caps(s, ray, t, y) ==
    LET x == RAdd(ray.origin.x, RMul(t, ray.direction.x))
        z == RAdd(ray.origin.z, RMul(t, ray.direction.z))
    IN  RLe(RAdd(RSq(x), RSq(z)), IF s.kind = "Cone" THEN RAbs(y) ELSE R(1))

\* Capped::intersect_caps; a closed shape here has finite bounds
intersect_caps(s, ray) ==
    IF ~s.closed \/ zeroish(ray.direction.y) THEN <<>>
    ELSE LET tmin == RDiv(RSub(s.minimum.r, ray.origin.y), ray.direction.y)
             tmax == RDiv(RSub(s.maximum.r, ray.origin.y), ray.direction.y)
         IN  (IF check_caps(s, ray, tmin, s.minimum.r) THEN <<Fin(tmin)>> ELSE <<>>)
                \o (IF check_caps(s, ray, tmax, s.maximum.r) THEN <<Fin(tmax)>>
                                                              ELSE <<>>)

\* `if self.minimum < y && y < self.maximum`
WithinBounds(s, ray, t) ==
    LET y == Fin(RAdd(ray.origin.y, RMul(t.r, ray.direction.y))) IN
    FLt(s.minimum, y) /\ FLt(y, s.maximum)

Bounded(s, ray, ts) ==
    (IF WithinBounds(s, ray, ts[1]) THEN <<ts[1]>> ELSE <<>>)
        \o (IF WithinBounds(s, ray, ts[2]) THEN <<ts[2]>> ELSE <<>>)

\* Cylinder::local_intersect on the ray already in object space
CylinderLocal(s, ray) ==
    LET a == RAdd(RSq(ray.direction.x), RSq(ray.direction.z))
        b == RAdd(RMul(R(2), RMul(ray.origin.x, ray.direction.x)),
                  RMul(R(2), RMul(ray.origin.z, ray.direction.z)))
        c == RSub(RAdd(RSq(ray.origin.x), RSq(ray.origin.z)), R(1))
        disc == RSub(RSq(b), RMul(R(4), RMul(a, c)))
    IN  IF zeroish(a) THEN Res("ok", intersect_caps(s, ray))
        ELSE IF RLt(disc, R(0)) THEN Res("ok", <<>>)
        ELSE IF ~RIsSquare(disc) THEN Res("inexact", <<>>)
        ELSE Res("ok", Bounded(s, ray, Ordered(Roots(a, b, disc)))
                           \o intersect_caps(s, ray))

\* Cylinder::local_intersect: transform.inverse().unwrap()
CylinderIntersect(s, ray) ==
    IF ~s.transform.some THEN CylinderLocal(s, ray)
    ELSE LET t == inverse(s.transform.m) IN
         IF t.st # "ok" THEN Res("panic", <<>>)
         ELSE CylinderLocal(s, RayTransform(ray, t.m))

\* Cone::local_intersect, the linear case
\* `if a.zeroish() { let t = -c / (2.0 * b); xs.push(..) }`: the root is
\* pushed without a test against minimum and maximum
LinearRoot(s, ray, b, c) == <<FDiv(RNeg(c), RMul(R(2), b))>>

\* Cone::local_intersect
ConeLocal(s, ray) ==
    LET a == RAdd(RSub(RSq(ray.direction.x), RSq(ray.direction.y)),
                  RSq(ray.direction.z))
        b == RAdd(RSub(RMul(R(2), RMul(ray.origin.x, ray.direction.x)),
                       RMul(R(2), RMul(ray.origin.y, ray.direction.y))),
                  RMul(R(2), RMul(ray.origin.z, ray.direction.z)))
        c == RAdd(RSub(RSq(ray.origin.x), RSq(ray.origin.y)), RSq(ray.origin.z))
        disc == RSub(RSq(b), RMul(R(4), RMul(a, c)))
    IN  IF zeroish(a) /\ zeroish(b) THEN Res("ok", intersect_caps(s, ray))
        ELSE IF zeroish(a)
             THEN Res("ok", LinearRoot(s, ray, b, c) \o intersect_caps(s, ray))
        ELSE IF RLt(disc, R(0)) THEN Res("ok", <<>>)
        ELSE IF ~RIsSquare(disc) THEN Res("inexact", <<>>)
        ELSE Res("ok", Bounded(s, ray, Ordered(Roots(a, b, disc)))
                           \o intersect_caps(s, ray))

\* intersect of every shape (h_intersect of the shape! shapes)
Intersect(s, ray) ==
    CASE s.kind = "Sphere" -> SphereIntersect(s.transform, ray)
      [] s.kind = "Plane" -> PlaneIntersect(s.transform, ray)
      [] s.kind = "Cylinder" -> CylinderIntersect(s, ray)
      [] s.kind = "Cube" -> CubeLocal(ray)
      [] s.kind = "Cone" -> ConeLocal(s, ray)

\* Sphere::normal_at: both inversions are `transform.inverse()?`
SphereNormalAt(transform, p) ==
    LET c == point(R(0), R(0), R(0)) IN
    IF ~transform.some
    THEN LET n == VecSub(p, c).v IN
         IF CanNormalize(n) THEN Res("ok", normalize(n)) ELSE Res("inexact", n)
    ELSE LET t == inverse(transform.m) IN
         IF t.st # "ok" THEN Res("err", c)
         ELSE LET object_point == MulVec(t.m, p).v
                  object_normal == VecSub(object_point, c).v
                  world_normal ==
                      [MulVec(transpose(t.m), object_normal).v EXCEPT !.w = R(0)]
              IN  IF CanNormalize(world_normal)
                  THEN Res("ok", normalize(world_normal))
                  ELSE Res("inexact", world_normal)

\* Plane's normal_at
PlaneNormalAt(transform, p) == Res("ok", vector(R(0), R(1), R(0)))

\* `dist < 1.0 && p.y >= self.maximum - EPSILON`; false for INFINITY
OnTopCap(s, p) ==
    /\ RLt(RAdd(RSq(p.x), RSq(p.z)), R(1))
    /\ IsFinite(s.maximum)
    /\ RLe(RSub(s.maximum.r, EPSILON), p.y)

\* `dist < 1.0 && p.y <= self.minimum + EPSILON`; false for -INFINITY
OnBottomCap(s, p) ==
    /\ RLt(RAdd(RSq(p.x), RSq(p.z)), R(1))
    /\ IsFinite(s.minimum)
    /\ RLe(p.y, RAdd(s.minimum.r, EPSILON))

\* Cylinder::local_normal_at
CylinderLocalNormalAt(s, p) ==
    IF OnTopCap(s, p) THEN Res("ok", vector(R(0), R(1), R(0)))
    ELSE IF OnBottomCap(s, p) THEN Res("ok", vector(R(0), R(-1), R(0)))
    ELSE Res("ok", vector(p.x, R(0), p.z))

\* Cube::local_normal_at
CubeLocalNormalAt(p) ==
    LET ax == RAbs(p.x)
        ay == RAbs(p.y)
        az == RAbs(p.z)
        maxc == MaxBy(<<Fin(ax), Fin(ay), Fin(az)>>).v.r
    IN  IF RLt(RAbs(RSub(maxc, ax)), EPSILON) THEN Res("ok", vector(p.x, R(0), R(0)))
        ELSE IF RLt(RAbs(RSub(maxc, ay)), EPSILON)
             THEN Res("ok", vector(R(0), p.y, R(0)))
        ELSE Res("ok", vector(R(0), R(0), p.z))

\* Cone::local_normal_at
ConeLocalNormalAt(s, p) ==
    LET dist == RAdd(RSq(p.x), RSq(p.z)) IN
    IF OnTopCap(s, p) THEN Res("ok", vector(R(0), R(1), R(0)))
    ELSE IF OnBottomCap(s, p) THEN Res("ok", vector(R(0), R(-1), R(0)))
    ELSE IF ~RIsSquare(dist) THEN Res("inexact", p)
    ELSE LET y == RSqrt(dist) IN
         Res("ok", vector(p.x, IF RLt(R(0), p.y) THEN RNeg(y) ELSE y, p.z))

\* normal_at of every shape
NormalAt(s, p) ==
    CASE s.kind = "Sphere" -> SphereNormalAt(s.transform, p)
      [] s.kind = "Plane" -> PlaneNormalAt(s.transform, p)
      [] s.kind = "Cylinder" -> CylinderLocalNormalAt(s, p)
      [] s.kind = "Cube" -> CubeLocalNormalAt(p)
      [] s.kind = "Cone" -> ConeLocalNormalAt(s, p)

\* Intersection::precompute, the flip test: `normalv.dot_product(eyev) < 0.0`
FacesAway_Never(normalv, eyev) == FALSE
FacesAway(normalv, eyev) == RLt(dot_product(normalv, eyev), R(0))

\* Intersection::precompute after normal_at returned n at the point pt:
\* `.unwrap()` panics on an Err; else the normal turned towards the eye,
\* and inside
TurnNormal(n, pt, eyev) ==
    IF n.st = "inexact" THEN Res("inexact", <<>>)
    ELSE IF n.st # "ok" THEN Res("panic", <<>>)
    ELSE Res("ok", [point |-> pt, eyev |-> eyev,
                    normalv |-> IF FacesAway(n.v, eyev) THEN VecNeg(n.v) ELSE n.v,
                    inside |-> FacesAway(n.v, eyev)])

\* Intersection::precompute, up to the offsets: the point, the eye vector,
\* the normal and inside
PrecomputeSurface(s, ray, t) ==
    TurnNormal(NormalAt(s, position(ray, t)), position(ray, t),
               VecNeg(ray.direction))

----------------------------------------------------------------------------
(* pattern.rs, material.rs : the pattern lookup and Material::lighting.    *)

\* Pattern::stripe: the colours a and b, the pattern type, the transform
Pattern(a, b, transform) ==
    [a |-> a, b |-> b, transform |-> transform, is |-> "Stripe"]

\* Pattern::checker
checker(a, b) == [Pattern(a, b, None) EXCEPT !.is = "Checker"]

NoPattern == [some |-> FALSE, p |-> Pattern(BLACK, BLACK, None)]
SomePattern(p) == [some |-> TRUE, p |-> p]

\* Pattern::stripe_at, not perturbed
stripe_at(pattern, p) ==
    IF (p.x[1] \div p.x[2]) % 2 = 0 THEN pattern.a ELSE pattern.b

\* f64::floor of a rational, and the f64 remainder `a % 2f64` of an integer
\* value: it has the sign of a
Floor(a) == a[1] \div a[2]
Rem2(a) == IF a >= 0 THEN a % 2 ELSE -((-a) % 2)

\* Pattern::checker_at, not perturbed:
\* `x.floor() + y.floor() + z.floor() % 2f64 == 0f64`, where % binds
\* tighter than +
checker_at(pattern, p) ==
    IF Floor(p.x) + Floor(p.y) + Rem2(Floor(p.z)) = 0 THEN pattern.a
                                                      ELSE pattern.b

\* Pattern::at, for the two pattern types here
at(pattern, p) ==
    IF pattern.is = "Checker" THEN checker_at(pattern, p)
                              ELSE stripe_at(pattern, p)

\* pattern_at: both inversions are `inverse()?`
pattern_at(s, pattern, p) ==
    LET t == inverse(s.transform.m) IN
    IF s.transform.some /\ t.st # "ok" THEN Res("err", BLACK)
    ELSE LET object_point == IF s.transform.some THEN MulVec(t.m, p).v ELSE p
             pt == inverse(pattern.transform.m)
         IN  IF pattern.transform.some /\ pt.st # "ok" THEN Res("err", BLACK)
             ELSE Res("ok", at(pattern,
                      IF pattern.transform.some THEN MulVec(pt.m, object_point).v
                                                ELSE object_point))

\* struct Material of material.rs
Phong(ambient, col, diffuse, shininess, specular, pattern) ==
    [ambient |-> ambient, colour |-> col, diffuse |-> diffuse,
     shininess |-> shininess, specular |-> specular, pattern |-> pattern]

\* f64::powf for a natural exponent
RECURSIVE RPow(_, _)
RPow(a, n) == IF n = 0 THEN R(1) ELSE RMul(a, RPow(a, n - 1))

\* Material::lighting, the specular term without its test of reflect_dot_eye
Specular_Unguarded(m, intensity, reflect_dot_eye) ==
    RMul(RMul(intensity, m.specular), RPow(reflect_dot_eye, m.shininess))

\* Material::lighting, the specular term on the lit side
Specular(m, intensity, reflect_dot_eye) ==
    IF RLe(reflect_dot_eye, R(0)) THEN BLACK
    ELSE RMul(RMul(intensity, m.specular), RPow(reflect_dot_eye, m.shininess))

\* Material::lighting from `let ambient` on, for the colour col looked up
\* and scaled by the light
LightingOf(m, col, intensity, light_dot_normal, reflect_dot_eye, in_shadow) ==
    LET ambient == RMul(col, m.ambient)
        lit == ~RLt(light_dot_normal, R(0))
        diffuse == IF lit THEN RMul(RMul(col, m.diffuse), light_dot_normal)
                          ELSE BLACK
        specular == IF lit THEN Specular(m, intensity, reflect_dot_eye) ELSE BLACK
    IN  [st |-> "ok", v |-> Lighting(ambient, diffuse, specular, in_shadow),
         colour |-> col, diffuse |-> diffuse, specular |-> specular]

\* Material::lighting.  light_dot_normal is lightv . normalv and
\* reflect_dot_eye is reflectv . eyev, for the light position, the eye
\* vector and the normal of the call; pattern_at(..).unwrap() panics on Err
lighting(m, s, intensity, p, light_dot_normal, reflect_dot_eye, in_shadow) ==
    LET looked == IF m.pattern.some THEN pattern_at(s, m.pattern.p, p)
                                    ELSE Res("ok", m.colour)
    IN  IF looked.st # "ok" THEN Res("panic", BLACK)
        ELSE LightingOf(m, RMul(looked.v, intensity), intensity, light_dot_normal,
                        reflect_dot_eye, in_shadow)

----------------------------------------------------------------------------
(* canvas.rs : Canvas, and the Display of a pixel (vec3.rs, colour.rs).    *)
(* pixels[x + y * width] of the code is pixels[x + y * width + 1] here.    *)

Canvas(width, height, pixels) ==
    [width |-> width, height |-> height, pixels |-> pixels]

\* Canvas::new
CanvasNew(width, height) ==
    Canvas(width, height, [n \in 1..(width * height) |-> colour(R(0), R(0), R(0))])

\* Canvas::fill
Fill(c, col) == [c EXCEPT !.pixels = [n \in 1..(c.width * c.height) |-> col]]

\* Canvas::write_pixel without its test of the bounds: the index wraps into
\* the next row, or is past the end of the vector
WritePixel_Unchecked(c, x, y, col) ==
    LET n == x + y * c.width + 1 IN
    IF n \in 1..Len(c.pixels) THEN [c EXCEPT !.pixels[n] = col] ELSE c

\* Canvas::write_pixel
WritePixel(c, x, y, col) ==
    IF x >= c.width \/ y >= c.height THEN c
    ELSE [c EXCEPT !.pixels[x + y * c.width + 1] = col]

\* Display's clamp without its two tests
clamp_Identity(val) == val

\* fn clamp of Display
clamp(val) ==
    IF RLt(val, R(0)) THEN R(0)
    ELSE IF RLt(R(1), val) THEN R(1)
    ELSE val

\* f64::round: to the nearest integer, halves away from zero
Round(a) ==
    IF a[1] >= 0 THEN (2 * a[1] + a[2]) \div (2 * a[2])
    ELSE -((2 * (-a[1]) + a[2]) \div (2 * a[2]))

\* one channel as Display writes it: (clamp(val) * 255f64).round()
Channel(val) == Round(RMul(clamp(val), R(255)))

\* impl Display for TypedVec and for Colour: the three numbers written
Display(col) == <<Channel(col.x), Channel(col.y), Channel(col.z)>>

\* the length of the text `{}` writes for a whole number n >= 0
RECURSIVE TextLen(_)
TextLen(n) == IF n < 10 THEN 1 ELSE 1 + TextLen(n \div 10)

\* `write!(l, "{} ", pixel)`: the three channels of Display, a space between
\* them and one after them
PixelText(col) ==
    LET d == Display(col) IN
    [out |-> d, len |-> TextLen(d[1]) + 1 + TextLen(d[2]) + 1 + TextLen(d[3]) + 1]

\* a line of the text: its length without the newline, and its pixels
Line(len, pixels) == [len |-> len, pixels |-> pixels]

\* Canvas::save without its line break
LineFull_Never(l) == FALSE

\* Canvas::save, `if l.len() >= 58`
LineFull(l) == l.len >= 58

\* Canvas::save, the loop over x of row y from column x on: l is the line
\* being built and done the lines already pushed to s
RECURSIVE SaveRow(_, _, _, _, _)
SaveRow(c, y, x, l, done) ==
    IF x >= c.width THEN Append(done, l)
    ELSE LET full == LineFull(l)
             t == PixelText(c.pixels[x + y * c.width + 1])
             cur == IF full THEN Line(0, <<>>) ELSE l
         IN  SaveRow(c, y, x + 1, Line(cur.len + t.len, Append(cur.pixels, t.out)),
                     IF full THEN Append(done, l) ELSE done)

\* Canvas::save: the lines "P3", "<width> <height>" and "255", then the
\* lines of every row; the text ends with an empty line
Save(c) ==
    [done |-> TRUE,
     header |-> <<Line(2, <<>>),
                  Line(TextLen(c.width) + 1 + TextLen(c.height), <<>>),
                  Line(3, <<>>)>>,
     rows |-> [y \in 1..c.height |-> SaveRow(c, y - 1, 0, Line(0, <<>>), <<>>)]]

----------------------------------------------------------------------------
(* The values of the variables of a machine that is not running.           *)

NoPre ==
    [done |-> FALSE, self |-> Intersection(0, "a"), n1 |-> R(0), n2 |-> R(0),
     containers |-> <<>>]
NoCall == [called |-> FALSE, input |-> <<>>, res |-> NoHit]

NoRet == [has |-> FALSE, colour |-> BLACK]
NoLast == [NewFrame(0) EXCEPT !.pc = "none"]
NoShadow == [called |-> FALSE, list |-> <<>>, distance |-> 0, res |-> FALSE]

NoVecOp ==
    [op |-> "none", lhs |-> vector(R(0), R(0), R(0)), rhs |-> vector(R(0), R(0), R(0)),
     res |-> Ok(vector(R(0), R(0), R(0))), m |-> identity(4)]
NoInv == [called |-> FALSE, st |-> "none", m |-> MNew(0, 0)]
NoTrip ==
    [done |-> FALSE, v |-> vector(R(0), R(0), R(0)),
     mv |-> Ok(vector(R(0), R(0), R(0))), back |-> Ok(vector(R(0), R(0), R(0)))]

NoShapeOp ==
    [op |-> "none", ray |-> Ray3(point(R(0), R(0), R(0)), vector(R(0), R(0), R(1))),
     p |-> point(R(0), R(0), R(0)), pattern |-> Pattern(BLACK, BLACK, None),
     m |-> Phong(R(0), R(0), R(0), 0, R(0), NoPattern), intensity |-> R(0),
     light_dot_normal |-> R(0), reflect_dot_eye |-> R(0), in_shadow |-> FALSE,
     t |-> R(0), res |-> Res("none", <<>>)]
NoWrite ==
    [called |-> FALSE, x |-> 0, y |-> 0, colour |-> colour(R(0), R(0), R(0)),
     before |-> CanvasNew(0, 0)]
NoEmit == [done |-> FALSE, colour |-> colour(R(0), R(0), R(0)), out |-> <<0, 0, 0>>]
NoSave == [done |-> FALSE, header |-> <<>>, rows |-> <<>>]

IdleHit == xs = <<>> /\ hitOut = NoCall /\ pre = NoPre
IdleVec == tv = NoVecOp
IdleMatrix == mat = identity(4) /\ sets = 0 /\ inv = NoInv /\ trip = NoTrip
IdleShape == shape = Shape3("Sphere", None) /\ shapeOut = NoShapeOp
\* Group::default() and the Default of a shape: parent None, no children
GroupIds == {"g", "h"}
ShapeIds == {"cube"}
Nodes == GroupIds \cup ShapeIds
NoParent == [some |-> FALSE, g |-> "g"]
IdleGroup ==
    /\ parent = [n \in Nodes |-> NoParent]
    /\ children = [g \in GroupIds |-> <<>>]
IdleCanvas ==
    /\ canvas = CanvasNew(1, 1) /\ written = NoWrite /\ emitted = NoEmit
    /\ saved = NoSave
IdleWorld ==
    /\ stack = <<>> /\ ret = NoRet /\ last = NoLast /\ budget = 0
    /\ shadowOut = NoShadow

----------------------------------------------------------------------------
(* The intersection list as a caller builds and queries it.                *)

\* Intersections::push
push(t, o) ==
    /\ Len(xs) < MaxLen
    /\ xs' = Append(xs, Intersection(t, o))
    /\ hitOut' = NoCall
    /\ pre' = NoPre
    /\ UNCHANGED <<objects, groupVars, shapeVars, canvasVars, worldVars, vecVars, matVars>>

\* Intersections::hit(&mut self): sorts the vector in place, returns the hit
hit ==
    /\ xs' = SortByT(xs)
    /\ hitOut' = [called |-> TRUE, input |-> xs, res |-> Hit(xs)]
    /\ pre' = NoPre
    /\ UNCHANGED <<objects, groupVars, shapeVars, canvasVars, worldVars, vecVars, matVars>>

\* xs[h].precompute(ray, &xs): the refractive indices on both sides of xs[h]
precompute(h) ==
    /\ h \in 1..Len(xs)
    /\ LET n == PrecomputeN(xs[h], xs) IN
       pre' = [done |-> TRUE, self |-> xs[h], n1 |-> n.n1, n2 |-> n.n2,
               containers |-> n.containers]
    /\ UNCHANGED <<objects, groupVars, shapeVars, canvasVars, xs, hitOut, worldVars, vecVars, matVars>>

InitHit ==
    /\ objects \in Scenes
    /\ IdleHit
    /\ IdleWorld
    /\ IdleVec
    /\ IdleMatrix
    /\ IdleShape
    /\ IdleCanvas
    /\ IdleGroup

NextHit ==
    \/ \E t \in TValues, o \in ObjIds : push(t, o)
    \/ hit
    \/ \E h \in 1..MaxLen : precompute(h)

SpecHit == InitHit /\ [][NextHit]_vars

----------------------------------------------------------------------------
(* The shading evaluator.                                                  *)

Top == stack[Len(stack)]

\* the outcome of a step of the activation on top of the stack
Apply(out) ==
    IF out.kind = "call"
    THEN /\ stack' = [stack EXCEPT ![Len(stack)] = out.frame]
                       \o <<NewFrame(ChildRemaining(out.frame.remaining))>>
         /\ ret' = NoRet
         /\ last' = last
    ELSE /\ stack' = SubSeq(stack, 1, Len(stack) - 1)
         /\ ret' = [has |-> TRUE, colour |-> out.frame.result]
         /\ last' = out.frame

\* a caller (the camera, a test) calls World::colour_at(ray, remaining)
colour_at(remaining) ==
    /\ stack = <<>>
    /\ stack' = <<NewFrame(remaining)>>
    /\ ret' = NoRet
    /\ last' = NoLast
    /\ budget' = remaining
    /\ shadowOut' = NoShadow
    /\ UNCHANGED <<objects, groupVars, shapeVars, canvasVars, hitVars, vecVars, matVars>>

\* the innermost colour_at runs from its entry to its first secondary call
\* or to its return
colour_at_entry(ray) ==
    /\ stack # <<>>
    /\ Top.pc = "entry"
    /\ Apply(Enter(Top, ray))
    /\ UNCHANGED <<objects, groupVars, shapeVars, canvasVars, hitVars, budget, shadowOut, vecVars, matVars>>

\* a secondary colour_at call has returned: its caller goes on to its next
\* secondary call or to its return
colour_at_resume ==
    /\ stack # <<>>
    /\ ret.has
    /\ Top.pc \in {"in_reflected", "in_refracted"}
    /\ Apply(Resume(Top, ret.colour))
    /\ UNCHANGED <<objects, groupVars, shapeVars, canvasVars, hitVars, budget, shadowOut, vecVars, matVars>>

\* a direct call of World::is_shadowed(point)
is_shadowed(raw, distance) ==
    /\ stack = <<>>
    /\ shadowOut' = [called |-> TRUE, list |-> raw, distance |-> distance,
                     res |-> IsShadowed(raw, distance)]
    /\ ret' = NoRet
    /\ last' = NoLast
    /\ UNCHANGED <<objects, groupVars, shapeVars, canvasVars, hitVars, stack, budget, vecVars, matVars>>

ShadowRays ==
    {<<>>} \cup {<<Intersection(t, "a")>> : t \in ShadowT}
           \cup {<<Intersection(t, "a"), Intersection(u, "b")>> : t, u \in ShadowT}

InitWorld ==
    /\ objects \in WorldScenes
    /\ IdleHit
    /\ IdleWorld
    /\ IdleVec
    /\ IdleMatrix
    /\ IdleShape
    /\ IdleCanvas
    /\ IdleGroup

NextWorld ==
    \/ \E r \in 0..MaxRemaining : colour_at(r)
    \/ \E ray \in Rays : colour_at_entry(ray)
    \/ colour_at_resume
    \/ \E raw \in ShadowRays, d \in Distances : is_shadowed(raw, d)

SpecWorld == InitWorld /\ [][NextWorld]_vars

----------------------------------------------------------------------------
(* TypedVec values as a caller combines them: each operation takes the     *)
(* result of the one before as its left operand.  A panic ends the run.    *)

MaxCoord == 2
Coords == {0, 1}

Operands ==
    {point(R(x), R(y), R(z)) : x, y, z \in Coords}
        \cup {vector(R(x), R(y), R(z)) : x, y, z \in Coords}
        \cup {colour(R(x), R(y), R(z)) : x, y, z \in Coords}

Factors == {R(2), R(-1)}

InRange(v) ==
    /\ Abs(v.x[1]) <= MaxCoord
    /\ Abs(v.y[1]) <= MaxCoord
    /\ Abs(v.z[1]) <= MaxCoord

VecOp(op, lhs, rhs, res) ==
    [op |-> op, lhs |-> lhs, rhs |-> rhs, res |-> res, m |-> identity(4)]

\* the coordinates are whole numbers
Whole(v) == v.x[2] = 1 /\ v.y[2] = 1 /\ v.z[2] = 1

\* the matrices a TypedVec is multiplied by
VecTransforms == {translation(R(1), R(-1), R(0)), scaling(R(2), R(1), R(-1))}

\* TypedVec::point, TypedVec::vector, TypedVec::colour
typed_new(v) ==
    /\ tv.res.ok
    /\ tv' = VecOp("new", v, v, Ok(v))
    /\ UNCHANGED <<objects, groupVars, shapeVars, canvasVars, hitVars, worldVars, matVars>>

\* lhs + rhs
vec_add(rhs) ==
    /\ tv.op # "none" /\ tv.res.ok
    /\ LET res == VecAdd(tv.res.v, rhs) IN
       /\ InRange(res.v)
       /\ tv' = VecOp("add", tv.res.v, rhs, res)
    /\ UNCHANGED <<objects, groupVars, shapeVars, canvasVars, hitVars, worldVars, matVars>>

\* lhs - rhs
vec_sub(rhs) ==
    /\ tv.op # "none" /\ tv.res.ok
    /\ LET res == VecSub(tv.res.v, rhs) IN
       /\ InRange(res.v)
       /\ tv' = VecOp("sub", tv.res.v, rhs, res)
    /\ UNCHANGED <<objects, groupVars, shapeVars, canvasVars, hitVars, worldVars, matVars>>

\* -lhs
vec_neg ==
    /\ tv.op # "none" /\ tv.res.ok
    /\ tv' = VecOp("neg", tv.res.v, tv.res.v, Ok(VecNeg(tv.res.v)))
    /\ UNCHANGED <<objects, groupVars, shapeVars, canvasVars, hitVars, worldVars, matVars>>

\* lhs * k
vec_mul(k) ==
    /\ tv.op # "none" /\ tv.res.ok
    /\ LET res == VecScale(tv.res.v, k) IN
       /\ InRange(res)
       /\ tv' = VecOp("mul", tv.res.v, tv.res.v, Ok(res))
    /\ UNCHANGED <<objects, groupVars, shapeVars, canvasVars, hitVars, worldVars, matVars>>

\* lhs / k
vec_div(k) ==
    /\ tv.op # "none" /\ tv.res.ok
    /\ LET res == VecDiv(tv.res.v, k) IN
       /\ Whole(res)
       /\ tv' = VecOp("div", tv.res.v, tv.res.v, Ok(res))
    /\ UNCHANGED <<objects, groupVars, shapeVars, canvasVars, hitVars, worldVars, matVars>>

\* lhs.normalize(), where the magnitude is a rational other than 0
vec_normalize ==
    /\ tv.op # "none" /\ tv.res.ok
    /\ CanNormalize(tv.res.v)
    /\ Whole(normalize(tv.res.v))
    /\ tv' = VecOp("normalize", tv.res.v, tv.res.v, Ok(normalize(tv.res.v)))
    /\ UNCHANGED <<objects, groupVars, shapeVars, canvasVars, hitVars, worldVars, matVars>>

\* m * lhs
vec_transform(m) ==
    /\ tv.op # "none" /\ tv.res.ok
    /\ LET res == MulVec(m, tv.res.v) IN
       /\ InRange(res.v)
       /\ tv' = [VecOp("transform", tv.res.v, tv.res.v, res) EXCEPT !.m = m]
    /\ UNCHANGED <<objects, groupVars, shapeVars, canvasVars, hitVars, worldVars, matVars>>

InitVec ==
    /\ objects = SceneNested
    /\ IdleHit
    /\ IdleWorld
    /\ IdleVec
    /\ IdleMatrix
    /\ IdleShape
    /\ IdleCanvas
    /\ IdleGroup

NextVec ==
    \/ \E v \in Operands : typed_new(v)
    \/ \E rhs \in Operands : vec_add(rhs)
    \/ \E rhs \in Operands : vec_sub(rhs)
    \/ vec_neg
    \/ \E k \in Factors : vec_mul(k)
    \/ \E k \in Factors : vec_div(k)
    \/ vec_normalize
    \/ \E m \in VecTransforms : vec_transform(m)

SpecVec == InitVec /\ [][NextVec]_vars

----------------------------------------------------------------------------
(* A matrix as a caller builds it, inverts it and applies it.              *)

MaxSize == 4
MaxSets == 1
Coeffs == {R(0), R(2)}
SetValues == {R(2)}

\* the quantities a matrix is applied to
Triples == {<<1, 0, 2>>, <<0, 1, 1>>}
Quantities ==
    {point(R(t[1]), R(t[2]), R(t[3])) : t \in Triples}
        \cup {vector(R(t[1]), R(t[2]), R(t[3])) : t \in Triples}
        \cup {colour(R(t[1]), R(t[2]), R(t[3])) : t \in Triples}

\* shearing with one coefficient set, as the tests of shearing build it
Shears == {[k \in 1..6 |-> IF k = j THEN R(1) ELSE R(0)] : j \in 1..6}

Built(m) ==
    /\ mat' = m
    /\ sets' = 0
    /\ inv' = NoInv
    /\ trip' = NoTrip
    /\ UNCHANGED <<objects, groupVars, shapeVars, canvasVars, hitVars, worldVars, vecVars>>

matrix_identity(size) == Built(identity(size))

matrix_translation(x, y, z) == Built(translation(x, y, z))

matrix_scaling(x, y, z) == Built(scaling(x, y, z))

matrix_shearing(s) == Built(shearing(s[1], s[2], s[3], s[4], s[5], s[6]))

\* mat.set(row, col, item)
matrix_set(row, col, item) ==
    /\ sets < MaxSets
    /\ mat' = MSet(mat, row, col, item)
    /\ sets' = sets + 1
    /\ inv' = NoInv
    /\ trip' = NoTrip
    /\ UNCHANGED <<objects, groupVars, shapeVars, canvasVars, hitVars, worldVars, vecVars>>

\* mat.inverse()
matrix_inverse ==
    /\ ~inv.called
    /\ LET r == inverse(mat) IN inv' = [called |-> TRUE, st |-> r.st, m |-> r.m]
    /\ trip' = NoTrip
    /\ UNCHANGED <<objects, groupVars, shapeVars, canvasVars, hitVars, worldVars, vecVars, mat, sets>>

\* mat.inverse().unwrap() * (mat.clone() * v)
round_trip(v) ==
    /\ inv.called /\ inv.st = "ok"
    /\ LET mv == MulVec(mat, v) IN
       trip' = [done |-> TRUE, v |-> v, mv |-> mv,
                back |-> IF mv.ok THEN MulVec(inv.m, mv.v) ELSE mv]
    /\ UNCHANGED <<objects, groupVars, shapeVars, canvasVars, hitVars, worldVars, vecVars, mat, sets, inv>>

InitMatrix ==
    /\ objects = SceneNested
    /\ IdleHit
    /\ IdleWorld
    /\ IdleVec
    /\ IdleMatrix
    /\ IdleShape
    /\ IdleCanvas
    /\ IdleGroup

NextMatrix ==
    \/ \E size \in 1..MaxSize : matrix_identity(size)
    \/ \E x, y, z \in Coeffs : matrix_translation(x, y, z)
    \/ \E x, y, z \in Coeffs : matrix_scaling(x, y, z)
    \/ \E s \in Shears : matrix_shearing(s)
    \/ \E row, col \in 0..(MaxSize - 1), item \in SetValues : matrix_set(row, col, item)
    \/ matrix_inverse
    \/ \E v \in Quantities : round_trip(v)

SpecMatrix == InitMatrix /\ [][NextMatrix]_vars

----------------------------------------------------------------------------
(* A shape as a caller sets it up and queries it.  A query takes &self and  *)
(* leaves the shape as it is, so the machine makes one query after each    *)
(* set-up.  A query whose square root is not a rational is left out.       *)

\* the transforms given to a shape or a pattern; scaling(0, 1, 1) has no
\* inverse
Transforms ==
    { None,
      Some(scaling(R(2), R(2), R(2))),
      Some(scaling(R(0), R(1), R(1))),
      Some(shearing(R(0), R(0), Q(3, 4), R(0), R(0), R(0))) }

\* Cube and Cone are shape! shapes: the caller of their h_intersect, which
\* would apply the transform, is not in the sources, so they stay untransformed
Shapes ==
    { Shape3(k, t) : k \in {"Sphere", "Plane", "Cylinder"}, t \in Transforms }
        \cup { Shape3(k, None) : k \in {"Cube", "Cone"} }
        \cup { Truncated("Cylinder", R(1), R(2), closed) : closed \in BOOLEAN }
        \cup { Truncated("Cone", Q(-1, 2), Q(1, 2), TRUE),
               Truncated("Cone", R(1), R(3), TRUE) }

ShapeRays ==
    { Ray3(point(R(0), R(0), R(-5)), vector(R(0), R(0), R(1))),
      Ray3(point(R(0), R(1), R(-5)), vector(R(0), R(0), R(1))),
      Ray3(point(R(0), R(2), R(-5)), vector(R(0), R(0), R(1))),
      Ray3(point(R(0), R(0), R(0)), vector(R(0), R(0), R(1))),
      Ray3(point(R(0), R(1), R(0)), vector(R(0), R(-1), R(0))),
      Ray3(point(R(0), R(1), R(0)), vector(R(1), R(0), R(0))),
      Ray3(point(R(0), R(1), R(0)), vector(R(4), R(3), R(0))),
      Ray3(point(R(1), R(-2), R(-5)), vector(R(0), R(1), R(1))) }

\* rays almost parallel to the xz plane, below EPSILON and at EPSILON; their
\* products stay within the integers only for an untransformed shape
\* without a quadratic
NearParallel ==
    { Ray3(point(R(0), R(1), R(0)), vector(R(0), Q(1, 20000), R(0))),
      Ray3(point(R(0), R(1), R(0)), vector(R(0), Q(1, 10000), R(0))) }

RaysFor(s) ==
    IF s.kind \in {"Plane", "Cube"} /\ ~s.transform.some
    THEN ShapeRays \cup NearParallel
    ELSE ShapeRays

ShapePoints ==
    { point(R(1), R(0), R(0)), point(R(0), R(1), R(0)), point(R(0), R(0), R(1)),
      point(R(2), R(0), R(0)), point(Q(3, 5), Q(4, 5), R(0)) }

Patterns ==
    { Pattern(R(1), BLACK, None),
      Pattern(R(1), BLACK, Some(scaling(R(2), R(2), R(2)))),
      Pattern(R(1), BLACK, Some(scaling(R(0), R(1), R(1)))) }

Phongs ==
    { Phong(Q(1, 10), R(1), Q(9, 10), 2, Q(9, 10), pt) :
        pt \in {NoPattern} \cup {SomePattern(q) : q \in Patterns} }

Intensities == {Q(1, 2)}
LightDots == {R(-1), Q(1, 2)}
EyeDots == {R(-1), R(0), Q(1, 2)}
LitPoints == {point(R(1), R(0), R(0))}
PatternPoints == {point(R(1), R(0), R(0)), point(R(2), R(0), R(0))}
\* points in cells of a checker pattern next to each other along x, y and z
CheckerPoints ==
    { point(R(0), R(0), R(0)), point(R(1), R(0), R(0)), point(R(2), R(0), R(0)),
      point(R(0), Q(3, 2), R(0)), point(Q(3, 2), Q(3, 2), R(0)),
      point(R(0), R(0), R(1)), point(R(0), R(0), R(2)),
      point(R(0), R(0), Q(-1, 2)) }
Checkers == {checker(R(1), BLACK)}
PointsFor(pattern) ==
    IF pattern.is = "Checker" THEN CheckerPoints ELSE PatternPoints

\* the t of an intersection handed to precompute
HitTs == {R(1), R(4), R(6)}

\* Shape::default() and set_transform
set_shape(s) ==
    /\ shape' = s
    /\ shapeOut' = NoShapeOp
    /\ UNCHANGED <<objects, groupVars, hitVars, worldVars, vecVars, matVars, canvasVars>>

\* shape.intersect(ray)
intersect(ray) ==
    /\ shapeOut = NoShapeOp
    /\ ray \in RaysFor(shape)
    /\ LET res == Intersect(shape, ray) IN
       /\ res.st # "inexact"
       /\ shapeOut' = [NoShapeOp EXCEPT !.op = "intersect", !.ray = ray, !.res = res]
    /\ UNCHANGED <<objects, groupVars, hitVars, worldVars, vecVars, matVars, canvasVars, shape>>

\* shape.normal_at(p)
normal_at(p) ==
    /\ shapeOut = NoShapeOp
    /\ LET res == NormalAt(shape, p) IN
       /\ res.st # "inexact"
       /\ shapeOut' = [NoShapeOp EXCEPT !.op = "normal_at", !.p = p, !.res = res]
    /\ UNCHANGED <<objects, groupVars, hitVars, worldVars, vecVars, matVars, canvasVars, shape>>

\* Intersection::new(t, &shape).precompute(ray, &xs): the surface part
shape_precompute(ray, t) ==
    /\ shapeOut = NoShapeOp
    /\ shapeOut' = [NoShapeOp EXCEPT !.op = "precompute", !.ray = ray, !.t = t,
                                     !.res = PrecomputeSurface(shape, ray, t)]
    /\ shapeOut'.res.st # "inexact"
    /\ UNCHANGED <<objects, groupVars, hitVars, worldVars, vecVars, matVars, canvasVars, shape>>

\* shape.pattern_at(&pattern, p)
shape_pattern_at(pattern, p) ==
    /\ shapeOut = NoShapeOp
    /\ p \in PointsFor(pattern)
    /\ shapeOut' = [NoShapeOp EXCEPT !.op = "pattern_at", !.pattern = pattern,
                                     !.p = p, !.res = pattern_at(shape, pattern, p)]
    /\ UNCHANGED <<objects, groupVars, hitVars, worldVars, vecVars, matVars, canvasVars, shape>>

\* m.lighting(&shape, light, p, eyev, normalv, in_shadow)
shape_lighting(m, intensity, p, light_dot_normal, reflect_dot_eye, in_shadow) ==
    /\ shapeOut = NoShapeOp
    /\ shapeOut' =
         [NoShapeOp EXCEPT
            !.op = "lighting", !.m = m, !.intensity = intensity, !.p = p,
            !.light_dot_normal = light_dot_normal,
            !.reflect_dot_eye = reflect_dot_eye, !.in_shadow = in_shadow,
            !.res = lighting(m, shape, intensity, p, light_dot_normal,
                             reflect_dot_eye, in_shadow)]
    /\ UNCHANGED <<objects, groupVars, hitVars, worldVars, vecVars, matVars, canvasVars, shape>>

InitShape ==
    /\ objects = SceneNested
    /\ IdleHit
    /\ IdleWorld
    /\ IdleVec
    /\ IdleMatrix
    /\ IdleShape
    /\ IdleCanvas
    /\ IdleGroup

NextShape ==
    \/ \E s \in Shapes : set_shape(s)
    \/ \E ray \in ShapeRays \cup NearParallel : intersect(ray)
    \/ \E p \in ShapePoints : normal_at(p)
    \/ \E ray \in ShapeRays, t \in HitTs : shape_precompute(ray, t)
    \/ \E pattern \in Patterns \cup Checkers, p \in PatternPoints \cup CheckerPoints :
          shape_pattern_at(pattern, p)
    \/ \E m \in Phongs, i \in Intensities, p \in LitPoints, ldn \in LightDots,
          rde \in EyeDots, in_shadow \in BOOLEAN :
          shape_lighting(m, i, p, ldn, rde, in_shadow)

SpecShape == InitShape /\ [][NextShape]_vars

----------------------------------------------------------------------------
(* A canvas as a caller creates it, draws on it and saves it.              *)

MaxWidth == 2
Heights == {1, 2}
\* the x and y of a call: inside the canvas and past its last column and row
Xs == 0..MaxWidth
Ys == {0, 1, 2}

PixelColours ==
    { colour(R(1), Q(4, 5), Q(3, 5)),
      colour(Q(-1, 2), Q(3, 2), Q(1, 2)),
      colour(Q(1, 510), Q(1, 1000), Q(-1, 1000)) }

\* Canvas::new(width, height)
canvas_new(width, height) ==
    /\ canvas' = CanvasNew(width, height)
    /\ written' = NoWrite
    /\ emitted' = NoEmit
    /\ saved' = NoSave
    /\ UNCHANGED <<objects, groupVars, hitVars, worldVars, vecVars, matVars, shapeVars>>

\* canvas.fill(col)
fill(col) ==
    /\ canvas' = Fill(canvas, col)
    /\ written' = NoWrite
    /\ emitted' = NoEmit
    /\ saved' = NoSave
    /\ UNCHANGED <<objects, groupVars, hitVars, worldVars, vecVars, matVars, shapeVars>>

\* canvas.write_pixel(x, y, col), for any x and y of a usize
write_pixel(x, y, col) ==
    /\ canvas' = WritePixel(canvas, x, y, col)
    /\ written' = [called |-> TRUE, x |-> x, y |-> y, colour |-> col,
                   before |-> canvas]
    /\ emitted' = NoEmit
    /\ saved' = NoSave
    /\ UNCHANGED <<objects, groupVars, hitVars, worldVars, vecVars, matVars, shapeVars>>

\* canvas.save(): one pixel of the canvas written by Display
save_pixel(x, y) ==
    /\ x < canvas.width /\ y < canvas.height
    /\ LET col == canvas.pixels[x + y * canvas.width + 1] IN
       emitted' = [done |-> TRUE, colour |-> col, out |-> Display(col)]
    /\ written' = NoWrite
    /\ saved' = NoSave
    /\ UNCHANGED <<objects, groupVars, hitVars, worldVars, vecVars, matVars, shapeVars, canvas>>

InitCanvas ==
    /\ objects = SceneNested
    /\ IdleHit
    /\ IdleWorld
    /\ IdleVec
    /\ IdleMatrix
    /\ IdleShape
    /\ IdleCanvas
    /\ IdleGroup

NextCanvas ==
    \/ \E w \in 1..MaxWidth, h \in Heights : canvas_new(w, h)
    \/ \E col \in PixelColours : fill(col)
    \/ \E x \in Xs, y \in Ys, col \in PixelColours :
          write_pixel(x, y, col)
    \/ \E x \in Xs, y \in Ys : save_pixel(x, y)

SpecCanvas == InitCanvas /\ [][NextCanvas]_vars

----------------------------------------------------------------------------
(* Canvas::save on canvases wide enough for a row to take several lines.   *)

MaxSaveWidth == 7

\* pixels whose text takes 6, 9 and 12 characters
SaveColours ==
    { colour(R(0), R(0), R(0)),
      colour(R(0), R(1), Q(1, 10)),
      colour(R(1), Q(4, 5), Q(3, 5)) }

\* one wide row, and two short rows
SaveSizes ==
    { <<w, 1>> : w \in 1..MaxSaveWidth } \cup { <<w, 2>> : w \in 1..2 }

\* canvas.save()
save ==
    /\ ~saved.done
    /\ saved' = Save(canvas)
    /\ UNCHANGED <<objects, groupVars, hitVars, worldVars, vecVars, matVars, shapeVars,
                   canvas, written, emitted>>

\* a canvas as new and write_pixel leave it
InitSave ==
    /\ objects = SceneNested
    /\ IdleHit
    /\ IdleWorld
    /\ IdleVec
    /\ IdleMatrix
    /\ IdleShape
    /\ IdleGroup
    /\ written = NoWrite /\ emitted = NoEmit /\ saved = NoSave
    /\ \E size \in SaveSizes :
          \E pixels \in [1..(size[1] * size[2]) -> SaveColours] :
              canvas = Canvas(size[1], size[2], pixels)

NextSave == save

SpecSave == InitSave /\ [][NextSave]_vars

----------------------------------------------------------------------------
(* Groups and shapes as a caller links them.  A group is an                *)
(* Rc<RefCell<Group>>; a parent field holds a clone of that Rc, so it      *)
(* refers to the group itself.                                             *)

MaxChildren == 2

\* Group::set_child: group.borrow_mut().set_child(&child)
set_child(g, c) ==
    /\ c # g
    /\ Len(children[g]) < MaxChildren
    /\ children' = [children EXCEPT ![g] = Append(@, c)]
    /\ UNCHANGED <<objects, hitVars, worldVars, vecVars, matVars, shapeVars,
                   canvasVars, parent>>

\* Groupable::set_parent of a shape! shape and of Group (the derive):
\* self.parent = Some(Rc::clone(parent)), whatever self is
set_parent(n, g) ==
    /\ parent' = [parent EXCEPT ![n] = [some |-> TRUE, g |-> g]]
    /\ UNCHANGED <<objects, hitVars, worldVars, vecVars, matVars, shapeVars,
                   canvasVars, children>>

\* group!(parent, child): set_child, then set_parent
group(g, c) ==
    /\ c # g
    /\ Len(children[g]) < MaxChildren
    /\ children' = [children EXCEPT ![g] = Append(@, c)]
    /\ parent' = [parent EXCEPT ![c] = [some |-> TRUE, g |-> g]]
    /\ UNCHANGED <<objects, hitVars, worldVars, vecVars, matVars, shapeVars,
                   canvasVars>>

InitGroup ==
    /\ objects = SceneNested
    /\ IdleHit
    /\ IdleWorld
    /\ IdleVec
    /\ IdleMatrix
    /\ IdleShape
    /\ IdleCanvas
    /\ IdleGroup

NextGroup ==
    \/ \E g \in GroupIds, c \in Nodes : set_child(g, c)
    \/ \E n \in Nodes, g \in GroupIds : set_parent(n, g)
    \/ \E g \in GroupIds, c \in Nodes : group(g, c)

SpecGroup == InitGroup /\ [][NextGroup]_vars

----------------------------------------------------------------------------
(* Claims about Intersections::hit and Intersection::precompute.           *)

Positive(s) == {k \in 1..Len(s) : s[k].t > 0}
NonNegative(s) == {k \in 1..Len(s) : s[k].t >= 0}

\* C1: hit() returns the entry with the smallest t among the entries with
\* t > 0, and None when the list is empty or every entry has t <= 0,
\* whatever the list holds and in whatever order it was pushed.
C1_HitLowestPositive ==
    hitOut.called =>
        LET in == hitOut.input IN
        /\ (Positive(in) = {}) <=> ~hitOut.res.some
        /\ hitOut.res.some =>
              /\ \E k \in Positive(in) : in[k] = hitOut.res.v
              /\ \A k \in Positive(in) : hitOut.res.v.t <= in[k].t

C1_Witness ==
    /\ hitOut.called /\ hitOut.res.some
    /\ Len(hitOut.input) = 3
    /\ hitOut.input[1].t > hitOut.res.v.t
    /\ \E k \in 1..3 : hitOut.input[k].t < 0

\* C2 as stated: hit() is the lowest entry with t >= 0: an entry with t = 0
\* is eligible and is returned when no entry has a smaller t >= 0.
C2_ZeroIsEligible ==
    hitOut.called =>
        LET in == hitOut.input IN
        /\ (NonNegative(in) = {}) <=> ~hitOut.res.some
        /\ hitOut.res.some =>
              \A k \in NonNegative(in) : hitOut.res.v.t <= in[k].t

\* C2 amended: hit() is the lowest entry with t > 0: an entry with t = 0 is
\* ignored like the negative ones, so dropping the entries with t <= 0 from
\* the list never changes what hit() returns, and the hit's t is never 0.
C2_ZeroIsIgnored ==
    hitOut.called =>
        LET in == hitOut.input
            kept == SelectSeq(in, IsPositive)
        IN  /\ hitOut.res.some => hitOut.res.v.t # 0 /\ ~(hitOut.res.v.t < 0)
            /\ hitOut.res.some <=> kept # <<>>
            /\ hitOut.res.some =>
                  \A k \in 1..Len(kept) : hitOut.res.v.t <= kept[k].t

C2_Witness ==
    /\ hitOut.called /\ hitOut.res.some
    /\ \E k \in 1..Len(hitOut.input) : hitOut.input[k].t = 0
    /\ hitOut.res.v.t = 1

IsSorted(s) == \A k \in 1..(Len(s) - 1) : s[k].t <= s[k + 1].t

\* the bookkeeping by object identity: the objects entered and not yet left
\* before entry k of the list, in the order they were entered
RECURSIVE Entered(_, _)
Entered(list, k) ==
    IF k <= 1 THEN <<>>
    ELSE LET before == Entered(list, k - 1)
             o == list[k - 1].obj
             isNot(x) == x # o
         IN  IF \E j \in 1..Len(before) : before[j] = o
             THEN SelectSeq(before, isNot)
             ELSE Append(before, o)

IndexOfInnermost(c) ==
    IF c = <<>> THEN R(1) ELSE objects[c[Len(c)]].material.refractive_index

\* the first place of the hit in the list
PlaceOf(self, list) ==
    CHOOSE k \in 1..Len(list) :
        /\ list[k] = self
        /\ \A j \in 1..(k - 1) : list[j] # self

\* C3: for xs sorted by t and a hit that is an entry of xs, n1 is the
\* refractive index of the object entered last and not yet left just before
\* the hit (1.0 when there is none) and n2 is that index just after the
\* hit's object has been toggled.
C3_RefractiveIndices ==
    (pre.done /\ IsSorted(xs)) =>
        LET k == PlaceOf(pre.self, xs) IN
        /\ pre.n1 = IndexOfInnermost(Entered(xs, k))
        /\ pre.n2 = IndexOfInnermost(Entered(xs, k + 1))

----------------------------------------------------------------------------
(* Claims about World::colour_at, shade_hit and is_shadowed.               *)

Activations == {stack[k] : k \in 1..Len(stack)} \cup {last}

\* the most steps a colour_at call entered with `remaining` can take: its
\* own entry, and with budget left two secondary calls and their returns
RECURSIVE StepsOf(_)
StepsOf(remaining) ==
    IF remaining < 1 THEN 1 ELSE 3 + 2 * StepsOf(remaining - 1)

\* the steps an activation on the stack can still take, its callee apart
StepsLeft(f) ==
    CASE f.pc = "entry" -> StepsOf(f.remaining)
      [] f.pc = "in_reflected" -> 2 + StepsOf(f.remaining - 1)
      [] f.pc = "in_refracted" -> 1
      [] OTHER -> 0

RECURSIVE Variant(_)
Variant(s) ==
    IF s = <<>> THEN 0 ELSE StepsLeft(s[Len(s)]) + Variant(SubSeq(s, 1, Len(s) - 1))

\* a call in progress has a next step to take
CanStep ==
    \/ Top.pc = "entry"
    \/ ret.has /\ Top.pc \in {"in_reflected", "in_refracted"}

\* C4: colour_at(ray, remaining) terminates: every secondary colour_at call
\* gets remaining - 1, so never more than remaining + 1 calls are nested;
\* a call in progress is never stuck, and each of its steps strictly lowers
\* a natural number that is 0 only when the outermost call has returned.
C4_BoundedRecursion ==
    /\ [](/\ Len(stack) <= budget + 1
          /\ \A k \in 1..Len(stack) :
                /\ stack[k].remaining >= 0
                /\ k > 1 => stack[k].remaining = stack[k - 1].remaining - 1
          /\ stack # <<>> => CanStep /\ Variant(stack) > 0)
    /\ [][stack # <<>> => Variant(stack') < Variant(stack)]_vars

\* two facing mirrors, the budget used up to the last level
C4_Witness ==
    /\ objects = SceneFacing
    /\ budget = MaxRemaining
    /\ Len(stack) = MaxRemaining + 1
    /\ \A k \in 1..(Len(stack) - 1) :
          stack[k].pc = "in_reflected" /\ stack[k].comps.obj \in {"a", "b"}

\* C5: reflected_colour is BLACK and casts no ray when remaining is 0 or
\* reflective is 0; refracted_colour is BLACK and casts no ray when remaining
\* is 0 or transparency is 0; otherwise, total internal reflection apart,
\* each makes exactly one secondary colour_at call.
C5_SecondaryRays ==
    \A f \in Activations :
        f.hit =>
            LET m == objects[f.comps.obj].material
                noReflection == f.remaining = 0 \/ m.reflective = R(0)
                noRefraction == f.remaining = 0 \/ m.transparency = R(0)
                n == RDiv(f.comps.n1, f.comps.n2)
                sin2 == RMul(RMul(n, n), RSub(R(1), RMul(f.comps.cos, f.comps.cos)))
            IN  /\ noReflection =>
                     f.reflCasts = 0 /\ f.reflected = BLACK /\ f.pc # "in_reflected"
                /\ ~noReflection => f.reflCasts = 1
                /\ f.pc \in {"in_refracted", "done"} =>
                     /\ noRefraction =>
                          f.refrCasts = 0 /\ f.refracted = BLACK /\ f.pc = "done"
                     /\ (~noRefraction /\ RLe(sin2, R(1))) => f.refrCasts = 1

C5_Witness ==
    /\ last.pc = "done" /\ last.hit
    /\ last.reflCasts = 1 /\ last.refrCasts = 1
    /\ last.remaining = 1

\* C6: shade_hit returns surface + reflected * r + refracted * (1 - r) with
\* r = schlick() when the material has reflective > 0 and transparency > 0,
\* and surface + reflected + refracted otherwise.
C6_ShadeHitBlend ==
    (last.pc = "done" /\ last.hit) =>
        LET m == objects[last.comps.obj].material
            r == schlick(last.comps)
        IN  /\ (RLt(R(0), m.reflective) /\ RLt(R(0), m.transparency)) =>
                 last.result = RAdd(last.surface,
                                    RAdd(RMul(last.reflected, r),
                                         RMul(last.refracted, RSub(R(1), r))))
            /\ ~(RLt(R(0), m.reflective) /\ RLt(R(0), m.transparency)) =>
                 last.result = RAdd(last.surface, RAdd(last.reflected, last.refracted))

C6_Witness ==
    /\ last.pc = "done" /\ last.hit
    /\ RLt(R(0), objects[last.comps.obj].material.reflective)
    /\ RLt(R(0), objects[last.comps.obj].material.transparency)
    /\ last.reflected # BLACK /\ last.refracted # BLACK
    /\ last.result # RAdd(last.surface, RAdd(last.reflected, last.refracted))

Blocks(list, distance) == \E k \in 1..Len(list) : list[k].t > 0 /\ list[k].t < distance

\* C7: is_shadowed(point) is true exactly when the ray from the point toward
\* the light has a hit with t less than the distance to the light; what lies
\* beyond the light or behind the point never shadows it.
C7_Shadowed ==
    /\ shadowOut.called =>
          /\ shadowOut.res <=> Blocks(shadowOut.list, shadowOut.distance)
          /\ (\A k \in 1..Len(shadowOut.list) :
                \/ shadowOut.list[k].t >= shadowOut.distance
                \/ shadowOut.list[k].t < 0) => ~shadowOut.res
    /\ \A f \in Activations :
          f.hit => (f.shadowed <=> Blocks(f.shadowRay, f.distance))

C7_Witness ==
    /\ shadowOut.called /\ ~shadowOut.res
    /\ Len(shadowOut.list) = 2
    /\ shadowOut.list[1].t > shadowOut.distance
    /\ shadowOut.list[2].t < 0


----------------------------------------------------------------------------
(* Claims about TypedVec and Matrix.                                       *)

\* C8: point - point is a Vector, point - vector is a Point, point + vector
\* is a Point, vector + vector is a Vector, and point + point is rejected:
\* the addition panics instead of returning a value.
C8_TagAlgebra ==
    LET P(v) == is_point(v)
        V(v) == is_vector(v)
    IN  /\ (tv.op = "sub" /\ P(tv.lhs) /\ P(tv.rhs)) =>
              tv.res.ok /\ is_vector(tv.res.v) /\ tv.res.v.w = R(0)
        /\ (tv.op = "sub" /\ P(tv.lhs) /\ V(tv.rhs)) =>
              tv.res.ok /\ is_point(tv.res.v) /\ tv.res.v.w = R(1)
        /\ (tv.op = "add" /\ P(tv.lhs) /\ V(tv.rhs)) =>
              tv.res.ok /\ is_point(tv.res.v) /\ tv.res.v.w = R(1)
        /\ (tv.op = "add" /\ V(tv.lhs) /\ V(tv.rhs)) =>
              tv.res.ok /\ is_vector(tv.res.v) /\ tv.res.v.w = R(0)
        /\ (tv.op = "add" /\ P(tv.lhs) /\ P(tv.rhs)) => ~tv.res.ok

\* a point that came out of point + vector is added to a point
C8_Witness ==
    /\ tv.op = "add" /\ is_point(tv.lhs) /\ is_point(tv.rhs)
    /\ tv.lhs.x = R(2)
    /\ ~tv.res.ok

IsSquare(m) == m.rows = m.cols /\ m.rows >= 1

\* C9 as stated: inverse() returns the not-invertible error exactly when the
\* determinant is zero, and returns a matrix for every square matrix whose
\* determinant is not zero.
C9_InverseTotal ==
    (inv.called /\ IsSquare(mat)) =>
        LET det == determinant(mat) IN
        /\ (inv.st = "err") <=> (det.ok /\ RIsZero(det.v))
        /\ (det.ok /\ ~RIsZero(det.v)) => inv.st = "ok"

IsTransform(m) ==
    /\ m.rows = 4 /\ m.cols = 4
    /\ MGet(m, 3, 0) = R(0) /\ MGet(m, 3, 1) = R(0) /\ MGet(m, 3, 2) = R(0)
    /\ MGet(m, 3, 3) = R(1)

SameQuantity(a, b) == a.x = b.x /\ a.y = b.y /\ a.z = b.z /\ a.is = b.is

\* C10 as stated: for every invertible 4x4 matrix M and every tagged
\* quantity V, M.inverse() * (M * V) has the x, y, z and the tag of V.
C10_RoundTripAny ==
    (trip.done /\ mat.rows = 4 /\ mat.cols = 4) =>
        trip.back.ok /\ SameQuantity(trip.back.v, trip.v)

\* C10 amended: for every invertible 4x4 matrix M whose last row is
\* (0, 0, 0, 1), a transform, and every tagged quantity V,
\* M.inverse() * (M * V) has the x, y, z, w and the tag of V.
C10_RoundTripTransform ==
    (trip.done /\ IsTransform(mat)) =>
        trip.back.ok /\ SameQuantity(trip.back.v, trip.v) /\ trip.back.v.w = trip.v.w

\* a transform that moves a point, and the inverse that moves it back
C10_Witness ==
    /\ trip.done /\ IsTransform(mat)
    /\ is_point(trip.v)
    /\ trip.mv.ok /\ ~SameQuantity(trip.mv.v, trip.v)
    /\ trip.back.ok /\ SameQuantity(trip.back.v, trip.v)

----------------------------------------------------------------------------
(* Claims about the shapes: transforms, intersections and normals.         *)

Singular(transform) == transform.some /\ inverse(transform.m).st = "err"

\* the last query is one whose code inverts the transform of the shape or of
\* the pattern, and that transform has no inverse
InvertsSingular ==
    \/ /\ shapeOut.op = "intersect"
       /\ Singular(shape.transform)
       /\ \/ shape.kind \in {"Sphere", "Cylinder"}
          \/ /\ shape.kind = "Plane"
             /\ ~RLt(RAbs(shapeOut.ray.direction.y), EPSILON)
    \/ /\ shapeOut.op = "normal_at"
       /\ Singular(shape.transform)
       /\ shape.kind = "Sphere"
    \/ /\ shapeOut.op = "pattern_at"
       /\ Singular(shape.transform) \/ Singular(shapeOut.pattern.transform)
    \/ /\ shapeOut.op = "lighting"
       /\ shapeOut.m.pattern.some
       /\ Singular(shape.transform) \/ Singular(shapeOut.m.pattern.p.transform)

\* C11: when the transform of a shape or of a pattern has no inverse, every
\* operation that needs the inverse (intersect, normal_at, the pattern lookup
\* inside lighting) reports an error result, and none of them aborts.
C11_SingularIsError == InvertsSingular => shapeOut.res.st = "err"

\* C12: for every ray, among them a ray parallel to a face or an axis, a ray
\* whose origin lies exactly on a surface or a slab boundary and a ray whose
\* quadratic coefficient vanishes, the intersection routine of each shape
\* returns a list, empty or not, of well-defined t values, and never fails.
C12_IntersectNeverFails ==
    (shapeOut.op = "intersect" /\ ~Singular(shape.transform)) =>
        /\ shapeOut.res.st = "ok"
        /\ \A k \in 1..Len(shapeOut.res.v) : ~IsNaN(shapeOut.res.v[k])

\* the intersection routine of an untransformed shape of the kind
LocalIntersect(kind, ray) == Intersect(Shape3(kind, None), ray)

\* C13: for every shape variant that has a transform, intersect computes the
\* intersections from the ray transformed by the inverse of the transform:
\* the decision whether the ray hits and every t are those of the local ray.
C13_IntersectInLocalSpace ==
    (/\ shapeOut.op = "intersect"
     /\ shape.transform.some
     /\ ~Singular(shape.transform)) =>
        shapeOut.res =
            LocalIntersect(shape.kind,
                           RayTransform(shapeOut.ray, inverse(shape.transform.m).m))

\* the normal in object space at the object-space point p
LocalNormal(kind, p) ==
    CASE kind = "Sphere" -> VecSub(p, point(R(0), R(0), R(0))).v
      [] kind = "Plane" -> vector(R(0), R(1), R(0))
      [] kind = "Cylinder" -> vector(p.x, R(0), p.z)

\* transpose(inverse(T)) * LocalNormal(inverse(T) * p), as a vector
WorldNormal(s, p) ==
    LET t == inverse(s.transform.m).m
        n == LocalNormal(s.kind, MulVec(t, p).v)
    IN  [MulVec(transpose(t), n).v EXCEPT !.w = R(0)]

\* C14: for every shape variant, normal_at(p) is the normalised product of
\* the inverse-transpose of the transform with the local normal at
\* inverse(transform) * p.
C14_NormalInWorldSpace ==
    (/\ shapeOut.op = "normal_at"
     /\ shape.transform.some
     /\ ~Singular(shape.transform)
     /\ CanNormalize(WorldNormal(shape, shapeOut.p))) =>
        shapeOut.res = Res("ok", normalize(WorldNormal(shape, shapeOut.p)))

----------------------------------------------------------------------------
(* Claims about Canvas and the output of a pixel.                          *)

InBounds(c, x, y) == x < c.width /\ y < c.height

\* Canvas::get
PixelAt(c, x, y) == c.pixels[x + y * c.width + 1]

\* C15: Canvas::write_pixel with x or y outside the canvas returns normally
\* and leaves every pixel as it was; inside the canvas it changes the pixel
\* at (x, y) and no other.
C15_WritePixelFrame ==
    written.called =>
        LET b == written.before IN
        /\ canvas.width = b.width /\ canvas.height = b.height
        /\ Len(canvas.pixels) = Len(b.pixels)
        /\ ~InBounds(b, written.x, written.y) => canvas.pixels = b.pixels
        /\ InBounds(b, written.x, written.y) =>
              \A i \in 0..(b.width - 1), j \in 0..(b.height - 1) :
                 PixelAt(canvas, i, j) =
                    IF i = written.x /\ j = written.y THEN written.colour
                                                      ELSE PixelAt(b, i, j)

\* a call past the last column whose index x + y * width is still inside the
\* vector, on a pixel of another colour
C15_Witness ==
    /\ written.called
    /\ written.x >= written.before.width
    /\ written.y < written.before.height
    /\ written.x + written.y * written.before.width < Len(written.before.pixels)
    /\ written.before.pixels[written.x + written.y * written.before.width + 1]
          # written.colour
    /\ canvas = written.before

\* out is the integer nearest to 255 * val, a half rounded up
NearestTo255(out, val) ==
    LET twice == RMul(R(2), RSub(R(out), RMul(R(255), val))) IN
    RLt(R(-1), twice) /\ RLe(twice, R(1))

ChannelAsClaimed(val, out) ==
    /\ out \in 0..255
    /\ RLt(val, R(0)) => out = 0
    /\ RLt(R(1), val) => out = 255
    /\ (RLe(R(0), val) /\ RLe(val, R(1))) => NearestTo255(out, val)

\* C16: every channel value written for a pixel is an integer in 0..255 and
\* equals round(255 * clamp(channel, 0, 1)); a channel below 0 gives 0 and a
\* channel above 1 gives 255.
C16_ChannelRange ==
    emitted.done =>
        /\ ChannelAsClaimed(emitted.colour.x, emitted.out[1])
        /\ ChannelAsClaimed(emitted.colour.y, emitted.out[2])
        /\ ChannelAsClaimed(emitted.colour.z, emitted.out[3])

\* a pixel with a channel below 0, one above 1 and one that is a half after
\* the scaling by 255
C16_Witness ==
    /\ emitted.done
    /\ emitted.colour = colour(Q(-1, 2), Q(3, 2), Q(1, 2))
    /\ emitted.out = <<0, 255, 128>>

----------------------------------------------------------------------------
(* Claims about the sphere, the plane, lighting in shadow and ties in hit. *)

\* the ray of the last query in the object space of the shape
LocalRay ==
    IF shape.transform.some
    THEN RayTransform(shapeOut.ray, inverse(shape.transform.m).m)
    ELSE shapeOut.ray

\* a quarter of the discriminant of |origin + t * direction|^2 = 1
QuarterDisc(ray) ==
    LET o == VecSub(ray.origin, point(R(0), R(0), R(0))).v IN
    RSub(RSq(dot_product(ray.direction, o)),
         RMul(dot_product(ray.direction, ray.direction),
              RSub(dot_product(o, o), R(1))))

\* the point of the ray at t lies on the unit sphere
OnSphere(ray, t) ==
    LET q == VecSub(position(ray, t.r), point(R(0), R(0), R(0))).v IN
    IsFinite(t) /\ dot_product(q, q) = R(1)

Inside(ray) ==
    LET o == VecSub(ray.origin, point(R(0), R(0), R(0))).v IN
    RLt(dot_product(o, o), R(1))

SphereQueried ==
    /\ shape.kind = "Sphere"
    /\ shapeOut.op = "intersect"
    /\ shapeOut.res.st = "ok"

\* C17: Sphere::intersect returns no intersection when the discriminant is
\* negative, and otherwise exactly two, in non-decreasing order of t, both on
\* the sphere; a tangent ray gives two equal t, and a ray that starts inside
\* the sphere gives one negative and one positive t.
C17_SphereIntersect ==
    SphereQueried =>
        LET ts == shapeOut.res.v
            d == QuarterDisc(LocalRay)
        IN  /\ RLt(d, R(0)) => ts = <<>>
            /\ ~RLt(d, R(0)) =>
                  /\ Len(ts) = 2
                  /\ OnSphere(LocalRay, ts[1]) /\ OnSphere(LocalRay, ts[2])
                  /\ RLe(ts[1].r, ts[2].r)
                  /\ RIsZero(d) <=> ts[1] = ts[2]
                  /\ Inside(LocalRay) =>
                        RLt(ts[1].r, R(0)) /\ RLt(R(0), ts[2].r)

\* test_tangent: the ray from (0, 1, -5) along z touches the sphere at t = 5
C17_Witness ==
    /\ SphereQueried
    /\ ~shape.transform.some
    /\ shapeOut.ray = Ray3(point(R(0), R(1), R(-5)), vector(R(0), R(0), R(1)))
    /\ RIsZero(QuarterDisc(shapeOut.ray))
    /\ shapeOut.res.v = <<Fin(R(5)), Fin(R(5))>>

PlaneQueried ==
    /\ shape = Shape3("Plane", None)
    /\ shapeOut.op = "intersect"

\* C18: an untransformed Plane returns no intersection when |direction.y| is
\* below EPSILON, and otherwise exactly one, at t = -origin.y / direction.y.
C18_PlaneIntersect ==
    PlaneQueried =>
        LET ray == shapeOut.ray
            ts == shapeOut.res.v
        IN  /\ shapeOut.res.st = "ok"
            /\ RLt(RAbs(ray.direction.y), Q(1, 10000)) => ts = <<>>
            /\ ~RLt(RAbs(ray.direction.y), Q(1, 10000)) =>
                  /\ Len(ts) = 1
                  /\ IsFinite(ts[1])
                  /\ RMul(ts[1].r, ray.direction.y) = RNeg(ray.origin.y)

\* a ray whose |direction.y| is EPSILON itself, from a point off the plane
C18_Witness ==
    /\ PlaneQueried
    /\ shapeOut.ray.direction.y = Q(1, 10000)
    /\ shapeOut.ray.origin.y = R(1)
    /\ shapeOut.res.v = <<Fin(R(-10000))>>

\* the colour of the surface at the point of the last lighting call: the
\* material's colour, or the colour of its pattern there
SurfaceColour ==
    IF shapeOut.m.pattern.some
    THEN pattern_at(shape, shapeOut.m.pattern.p, shapeOut.p).v
    ELSE shapeOut.m.colour

LitInShadow ==
    /\ shapeOut.op = "lighting"
    /\ shapeOut.in_shadow
    /\ shapeOut.res.st = "ok"

\* C19: Material::lighting returns exactly the ambient term, the surface
\* colour times the light intensity times the ambient coefficient, whenever
\* in_shadow is true, for any light position, eye vector and normal.
C19_ShadowIsAmbient ==
    LitInShadow =>
        shapeOut.res.v =
            RMul(RMul(SurfaceColour, shapeOut.intensity), shapeOut.m.ambient)

\* in shadow with the light and the eye placed so that the diffuse and the
\* specular term would both be positive
C19_Witness ==
    /\ LitInShadow
    /\ RLt(R(0), shapeOut.light_dot_normal)
    /\ RLt(R(0), shapeOut.reflect_dot_eye)
    /\ ~shapeOut.m.pattern.some
    /\ shapeOut.intensity = Q(1, 2)
    /\ shapeOut.res.v = Q(1, 20)

\* the entries of the list with the smallest positive t, by position
Lowest(list) ==
    { k \in 1..Len(list) :
        /\ list[k].t > 0
        /\ \A j \in 1..Len(list) : list[j].t > 0 => list[k].t <= list[j].t }

FirstOf(ks) == CHOOSE k \in ks : \A j \in ks : k <= j

\* C20: when several intersections share the smallest positive t, hit()
\* returns the one that was pushed first.
C20_TieFirstPushed ==
    (hitOut.called /\ Lowest(hitOut.input) # {}) =>
        /\ hitOut.res.some
        /\ hitOut.res.v = hitOut.input[FirstOf(Lowest(hitOut.input))]

\* two entries on different objects share the smallest positive t, and the
\* one pushed first is returned
C20_Witness ==
    /\ hitOut.called
    /\ \E j, k \in Lowest(hitOut.input) :
          /\ j < k
          /\ hitOut.input[j].obj # hitOut.input[k].obj
          /\ j = FirstOf(Lowest(hitOut.input))
          /\ hitOut.res.v = hitOut.input[j]
          /\ hitOut.res.v # hitOut.input[k]

----------------------------------------------------------------------------
\* C21: precompute negates the surface normal and reports inside exactly
\* when the shape's normal at the hit point and the eye vector have a
\* negative dot product, and keeps the normal with inside false otherwise;
\* in every result the normal and the eye vector have a dot product of at
\* least zero, and the eye vector is the negated ray direction.
SurfaceNormal == NormalAt(shape, position(shapeOut.ray, shapeOut.t)).v
Precomputed == shapeOut.op = "precompute" /\ shapeOut.res.st = "ok"
C21_InsideFlipsNormal ==
    Precomputed =>
        LET c == shapeOut.res.v
            eye == VecNeg(shapeOut.ray.direction)
            d == dot_product(SurfaceNormal, eye)
        IN  /\ c.inside <=> RLt(d, R(0))
            /\ c.normalv = IF RLt(d, R(0)) THEN VecNeg(SurfaceNormal)
                                            ELSE SurfaceNormal
            /\ RLe(R(0), dot_product(c.normalv, c.eyev))
            /\ c.eyev = eye
C21_Witness ==
    /\ Precomputed
    /\ shapeOut.res.v.inside
    /\ shapeOut.res.v.normalv = VecNeg(SurfaceNormal)
    /\ ~RIsZero(dot_product(shapeOut.res.v.normalv, shapeOut.res.v.eyev))

----------------------------------------------------------------------------
\* C22: in Material::lighting with in_shadow false, the diffuse and the
\* specular term are both zero when light . normal < 0, and both are zero
\* when the reflected light vector and the eye vector have a dot product
\* <= 0.
LitUnshadowed ==
    /\ shapeOut.op = "lighting"
    /\ shapeOut.res.st = "ok"
    /\ ~shapeOut.in_shadow
BothZero == shapeOut.res.diffuse = BLACK /\ shapeOut.res.specular = BLACK
C22_BothZeroOffEye ==
    LitUnshadowed =>
        /\ RLt(shapeOut.light_dot_normal, R(0)) => BothZero
        /\ RLe(shapeOut.reflect_dot_eye, R(0)) => BothZero
\* C22 as the code has it: both terms are zero when light . normal < 0; on
\* the lit side a dot product <= 0 of the reflected light vector with the
\* eye vector makes the specular term zero and leaves the diffuse term
\* colour * diffuse * light . normal.
C22_SpecularZeroOffEye ==
    LitUnshadowed =>
        /\ RLt(shapeOut.light_dot_normal, R(0)) => BothZero
        /\ (~RLt(shapeOut.light_dot_normal, R(0))
                /\ RLe(shapeOut.reflect_dot_eye, R(0))) =>
              /\ shapeOut.res.specular = BLACK
              /\ shapeOut.res.diffuse =
                    RMul(RMul(shapeOut.res.colour, shapeOut.m.diffuse),
                         shapeOut.light_dot_normal)
C22_Witness ==
    /\ LitUnshadowed
    /\ ~RLt(shapeOut.light_dot_normal, R(0))
    /\ RLe(shapeOut.reflect_dot_eye, R(0))
    /\ shapeOut.res.specular = BLACK
    /\ shapeOut.res.diffuse # BLACK

----------------------------------------------------------------------------
\* C23: every side-wall intersection returned by a Cylinder or a Cone,
\* the one from the cone's linear case included, lies at a height y
\* strictly between the shape's minimum and maximum.
TubeQueried ==
    /\ shapeOut.op = "intersect"
    /\ shape.kind \in {"Cylinder", "Cone"}
    /\ shapeOut.res.st = "ok"
\* the result without the cap intersections appended to it
WallPart ==
    SubSeq(shapeOut.res.v, 1,
           Len(shapeOut.res.v) - Len(intersect_caps(shape, LocalRay)))
HeightAt(t) == Fin(RAdd(LocalRay.origin.y, RMul(t.r, LocalRay.direction.y)))
C23_WallWithinBounds ==
    TubeQueried =>
        \A i \in 1..Len(WallPart) :
            /\ IsFinite(WallPart[i])
            /\ FLt(shape.minimum, HeightAt(WallPart[i]))
            /\ FLt(HeightAt(WallPart[i]), shape.maximum)

----------------------------------------------------------------------------
\* C27: a cap intersection reported by a closed Cone at the cap height y
\* satisfies x^2 + z^2 <= y^2, the cone's radius squared at that height,
\* and no point of a cap plane with x^2 + z^2 <= y^2 is rejected.
ClosedConeQueried ==
    /\ shapeOut.op = "intersect"
    /\ shape.kind = "Cone"
    /\ shape.closed
    /\ shapeOut.res.st = "ok"
    /\ ~zeroish(shapeOut.ray.direction.y)
\* the cap intersections at the end of the result
CapPart ==
    SubSeq(shapeOut.res.v, Len(WallPart) + 1, Len(shapeOut.res.v))
\* where the ray of the query meets the plane at height y
CapT(y) == RDiv(RSub(y, shapeOut.ray.origin.y), shapeOut.ray.direction.y)
OnCapDisc(y) ==
    LET p == position(shapeOut.ray, CapT(y)) IN
    RLe(RAdd(RSq(p.x), RSq(p.z)), RSq(y))
C27_CapWithinRadius ==
    ClosedConeQueried =>
        \A y \in {shape.minimum.r, shape.maximum.r} :
            (\E i \in 1..Len(CapPart) : CapPart[i] = Fin(CapT(y))) <=> OnCapDisc(y)

----------------------------------------------------------------------------
\* C24: whenever n1 > n2 and (n1 / n2)^2 * (1 - cos^2) > 1, schlick()
\* returns exactly 1 and refracted_colour returns black without casting a
\* refracted ray.
Critical(comps) ==
    /\ RLt(comps.n2, comps.n1)
    /\ RLt(R(1), RMul(RSq(RDiv(comps.n1, comps.n2)), RSub(R(1), RSq(comps.cos))))
C24_TotalInternalReflection ==
    \A f \in Activations :
        (f.hit /\ f.pc \in {"in_refracted", "done"} /\ Critical(f.comps)) =>
            /\ schlick(f.comps) = R(1)
            /\ f.pc = "done"
            /\ f.refrCasts = 0
            /\ f.refracted = BLACK
            /\ (RLt(R(0), objects[f.comps.obj].material.reflective)
                    /\ RLt(R(0), objects[f.comps.obj].material.transparency)) =>
                  f.result = RAdd(f.surface, f.reflected)
C24_Witness ==
    /\ last.pc = "done" /\ last.hit
    /\ Critical(last.comps)
    /\ last.remaining >= 1
    /\ RLt(R(0), objects[last.comps.obj].material.transparency)
    /\ RLt(R(0), objects[last.comps.obj].material.reflective)
    /\ last.reflected # BLACK
    /\ last.refrCasts = 0
    /\ last.result = RAdd(last.surface, last.reflected)

----------------------------------------------------------------------------
\* C25: a checker pattern that is not perturbed returns a where
\* floor(x) + floor(y) + floor(z) is even and b where it is odd, so that
\* cells next to each other along any axis differ.
CheckerLooked ==
    /\ shapeOut.op = "pattern_at"
    /\ shapeOut.pattern.is = "Checker"
    /\ shapeOut.res.st = "ok"
    /\ ~shape.transform.some
    /\ ~shapeOut.pattern.transform.some
CellSum(p) == Floor(p.x) + Floor(p.y) + Floor(p.z)
C25_CheckerParity ==
    CheckerLooked =>
        shapeOut.res.v = IF CellSum(shapeOut.p) % 2 = 0 THEN shapeOut.pattern.a
                                                        ELSE shapeOut.pattern.b

----------------------------------------------------------------------------
\* C26: precompute tracks its containers by object identity: two distinct
\* shapes with equal material and equal transform are separate containers,
\* so that after the walk the containers are the objects entered and not
\* yet left up to and including the hit.
C26_ContainersByIdentity ==
    (pre.done /\ IsSorted(xs)) =>
        pre.containers = Entered(xs, PlaceOf(pre.self, xs) + 1)

----------------------------------------------------------------------------
\* C28: every TypedVec made by point, vector or colour and any sequence of
\* +, -, negation, scalar * and /, normalize and Matrix * TypedVec has w = 1
\* exactly when its tag is Point and w = 0 otherwise; Matrix * TypedVec
\* returns the tag and the w of its operand, so that a translation moves a
\* point and leaves a vector unchanged.
Offset(m) == vector(MGet(m, 0, 3), MGet(m, 1, 3), MGet(m, 2, 3))
IsTranslation(m) == m = translation(MGet(m, 0, 3), MGet(m, 1, 3), MGet(m, 2, 3))
C28_WFollowsTag ==
    (tv.op # "none" /\ tv.res.ok) =>
        LET v == tv.res.v IN
        /\ v.w = IF is_point(v) THEN R(1) ELSE R(0)
        /\ tv.op = "transform" =>
              /\ v.w = tv.lhs.w
              /\ v.is = tv.lhs.is
              /\ IsTranslation(tv.m) =>
                    IF is_point(tv.lhs) THEN v = VecAdd(tv.lhs, Offset(tv.m)).v
                                        ELSE v = tv.lhs
C28_Witness ==
    /\ tv.op = "transform" /\ tv.res.ok
    /\ IsTranslation(tv.m)
    /\ is_point(tv.lhs)
    /\ tv.res.v # tv.lhs
    /\ tv.res.v.w = R(1)
    /\ tv.lhs.x = R(-1)

----------------------------------------------------------------------------
\* C29: no line of the text Canvas::save() returns is longer than 70
\* characters, whatever the canvas and its pixels, and the pixels of each
\* row are written in the order of x, none lost and none repeated where a
\* row continues on a further line.
RECURSIVE Joined(_)
Joined(lines) ==
    IF lines = <<>> THEN <<>> ELSE lines[1].pixels \o Joined(Tail(lines))
RowOf(c, y) == [x \in 1..c.width |-> Display(c.pixels[x + (y - 1) * c.width])]
C29_LinesWithin70 ==
    saved.done =>
        /\ \A k \in 1..Len(saved.header) : saved.header[k].len <= 70
        /\ Len(saved.rows) = canvas.height
        /\ \A y \in 1..canvas.height :
              /\ \A k \in 1..Len(saved.rows[y]) : saved.rows[y][k].len <= 70
              /\ Joined(saved.rows[y]) = RowOf(canvas, y)
C29_Witness ==
    /\ saved.done
    /\ Len(saved.rows[1]) = 2
    /\ saved.rows[1][1].len = 69
    /\ Len(saved.rows[1][1].pixels) = 6
    /\ Len(saved.rows[1][2].pixels) = 1

----------------------------------------------------------------------------
\* C30: after any sequence of set_child and set_parent calls, directly or
\* through group!, the parent relation is acyclic: following the parent
\* links from any shape or group ends at a group without a parent, and no
\* group is its own ancestor.
RECURSIVE EndsWithin(_, _)
EndsWithin(n, steps) ==
    IF ~parent[n].some THEN TRUE
    ELSE IF steps = 0 THEN FALSE
    ELSE EndsWithin(parent[n].g, steps - 1)
C30_ParentAcyclic ==
    \A n \in Nodes : EndsWithin(n, Cardinality(GroupIds))

====
